---- MODULE Spec2Model ----
(***************************************************************************)
(* web-diary-backend: the four serverless cutout handlers                  *)
(*   OBJ    Lambda_CropObject/lambda_function.py   (rembg)                 *)
(*   SAM2   Lambda_CropSAM2/lambda_function.py     (SAM2 automatic masks)  *)
(*   YOLOF  Lambda_CropYOLO/lambda_function.py     (YOLO, inline PNG)      *)
(*   YOLOP  Lambda_CropYOLO/lambda_python.py       (YOLO, image_url)       *)
(* with their candidate selectors, and the Django API (galleries and       *)
(* exhibits, upload sessions, notebook pages).                             *)
(*                                                                         *)
(* Each part has its own variables and its own specification:              *)
(*   Spec      one deployed handler serving a sequence of invocations,     *)
(*             each invocation stepping through the handler's statements;  *)
(*   SpecSel   the three selectors applied to bounded candidate lists;     *)
(*   SpecComp  the alpha compositing functions;                            *)
(*   SpecLoad  concurrent calls of SAM2's lazy model loader;               *)
(*   SpecMus   concurrent requests on one gallery slot, step by step;      *)
(*   SpecGal   gallery and exhibit requests, one request per step;         *)
(*   SpecUp    upload sessions: issue, client PUT, confirm;                *)
(*   SpecPg    concurrent creation of notebook pages.                      *)
(***************************************************************************)
EXTENDS Integers, Sequences, FiniteSets, TLC

VARIABLES
    \* ---- one deployed handler (Spec) ----
    fn,          \* which handler module is deployed
    env,         \* process-wide settings read from os.environ at import
    model,       \* SAM2: _model, 0 for None, else the build_sam2 call that made it
    mask_generator, \* SAM2: _mask_generator, 0 for None, else the model it wraps
    builds,      \* SAM2: calls of build_sam2 executed by the process
    inv,         \* invocations started so far
    pc,          \* statement the running invocation is at; "idle" between invocations
    ev,          \* the event of the running (or last) invocation
    trace,       \* statements the running (or last) invocation has executed
    cause,       \* what made the invocation fail, "none" if nothing did
    nodet,       \* the segmenter produced no candidate in this invocation
    status,      \* statusCode of the response, 0 while there is none
    exc,         \* an exception left lambda_handler
    outKey,      \* key the invocation writes to
    writes,      \* put_object calls that succeeded, oldest first
    uuidCtr,     \* uuid4 values drawn so far
    log,         \* (cause, statusCode, nodet) of the responses returned so far
    refs,        \* kinds of result reference the response carries
    expiry,      \* ExpiresIn of the invocation's generate_presigned_url call, 0 if none
    \* ---- selectors (SpecSel) ----
    sam2Masks,   \* list[dict] returned by SAM2AutomaticMaskGenerator.generate
    yoloInst,    \* instances of an ultralytics result: masks.data[i], boxes.conf[i]
    largestRes,  \* outcome of _pick_largest_mask(sam2Masks)
    salientRes,  \* outcome of _pick_most_salient_instance(result)
    confRes,     \* outcome of the selection inside _segment_to_rgba_png
    \* ---- compositors (SpecComp) ----
    srcImg,      \* the decoded source image (RGB)
    selMask,     \* the selected mask, NoMask when nothing was detected
    cutSam2,     \* outcome of _apply_alpha_cutout(srcImg, selMask)
    cutYolop,    \* outcome of _make_rgba_cutout(srcImg, selMask)
    cutYolof,    \* outcome of the compositing part of _segment_to_rgba_png
    \* ---- concurrent callers of _load_model (SpecLoad) ----
    tpc,         \* statement of _load_model each thread is at, "idle" outside
    calls,       \* calls of _load_model begun so far
    raised,      \* calls of _load_model that raised
    \* ---- MiniatureMuseum exhibit endpoints (SpecMus) ----
    db,          \* rows of table exhibits
    nextId,      \* primary keys drawn so far
    started,     \* requests received so far
    req,         \* the request each client has in flight
    last,        \* the response sent since the last request was taken on
    serial,      \* requests are served one at a time
    pre,         \* rows of exhibits when the last request of a serial run began
    \* ---- MiniatureMuseum, requests served one at a time (SpecGal) ----
    galleries,   \* rows of table galleries
    exhibits,    \* rows of table exhibits, with their ownership columns
    served,      \* requests served so far
    reply,       \* the last request and its response
    \* ---- core: upload sessions (SpecUp) ----
    sessions,    \* rows of table upload_sessions
    objects,     \* keys of the objects in the S3 bucket
    issued,      \* uuid4 values drawn by issue_upload so far
    upc,         \* the confirm request each worker has in flight
    upLast,      \* the last upload request and its response
    \* ---- core: pages added to notebooks (SpecPg) ----
    links,       \* rows of table notebook_pages, in creation order
    pages,       \* pages saved so far
    ppc          \* the page creation each worker has in flight

selVars == <<sam2Masks, yoloInst, largestRes, salientRes, confRes>>

compVars == <<srcImg, selMask, cutSam2, cutYolop, cutYolof>>

lamVars ==
    <<fn, env, model, mask_generator, builds, inv, pc, ev, trace, cause, nodet,
      status, exc, outKey, writes, uuidCtr, log, refs, expiry>>

\* the handler's state apart from the model globals
lamRest ==
    <<fn, env, inv, pc, ev, trace, cause, nodet, status, exc, outKey, writes,
      uuidCtr, log, refs, expiry>>

ldVars == <<tpc, calls, raised>>

musVars == <<db, nextId, started, req, last, serial, pre>>

galVars == <<galleries, exhibits, served, reply>>

upVars == <<sessions, objects, issued, upc, upLast>>

pgVars == <<links, pages, ppc>>

vars == <<lamVars, selVars, compVars, ldVars, musVars, galVars, upVars, pgVars>>

\* what the actions of one specification leave alone
nonLamVars == <<selVars, compVars, ldVars, musVars, galVars, upVars, pgVars>>
nonSelVars == <<lamVars, compVars, ldVars, musVars, galVars, upVars, pgVars>>
nonCompVars == <<lamVars, selVars, ldVars, musVars, galVars, upVars, pgVars>>
nonLdVars == <<lamRest, selVars, compVars, musVars, galVars, upVars, pgVars>>
nonMusVars == <<lamVars, selVars, compVars, ldVars, galVars, upVars, pgVars>>
nonGalVars == <<lamVars, selVars, compVars, ldVars, musVars, upVars, pgVars>>
nonUpVars == <<lamVars, selVars, compVars, ldVars, musVars, galVars, pgVars>>
nonPgVars == <<lamVars, selVars, compVars, ldVars, musVars, galVars, upVars>>

(***************************************************************************)
(* Bounds of the model.                                                    *)
(***************************************************************************)
MaxArea == 1     \* largest value of a mask dict's 'area' entry
MaxConf == 2     \* confidences are 0..MaxConf, in units of 1/MaxConf
MaxLen == 3      \* longest candidate list

(***************************************************************************)
(* Candidate values.                                                       *)
(***************************************************************************)
\* lists of at most n elements of S
ListsUpTo(S, n) == UNION {[1..k -> S] : k \in 0..n}

NoArea == -1     \* the dict has no 'area' key
NoSeg == <<>>    \* the dict has no 'segmentation' key (m.get gives None)

\* masks of two pixels
BoolSegs == {<<a, b>> : a, b \in BOOLEAN}     \* 'segmentation': (H,W) bool
FloatMasks == {<<a, b>> : a, b \in {0, 1}}    \* masks.data[i]: 0/1 valued

Sam2MaskDicts ==
    [area : {NoArea} \cup (0..MaxArea), seg : {NoSeg} \cup BoolSegs]

YoloInstances == [mask : FloatMasks, conf : 0..MaxConf]

RECURSIVE SumSeq(_)
SumSeq(s) == IF s = <<>> THEN 0 ELSE Head(s) + SumSeq(Tail(s))

\* bool -> 0/1, as seg.astype(np.uint8) and np.sum over a bool array do
AsUint8(seg) == [i \in 1..Len(seg) |-> IF seg[i] THEN 1 ELSE 0]

(***************************************************************************)
(* Library selection primitives.                                           *)
(***************************************************************************)
\* Python's max(iterable, key=...): the running best is replaced only by a
\* strictly greater key, so the first maximal element wins.
RECURSIVE PyMaxFrom(_, _, _)
PyMaxFrom(keys, best, i) ==
    IF i > Len(keys) THEN best
    ELSE PyMaxFrom(keys, IF keys[i] > keys[best] THEN i ELSE best, i + 1)

PyMaxLast(keys) ==
    CHOOSE i \in 1..Len(keys) :
        /\ \A j \in 1..Len(keys) : keys[j] <= keys[i]
        /\ \A j \in 1..Len(keys) : keys[j] = keys[i] => j <= i

PyMax(keys) == PyMaxFrom(keys, 1, 2)

\* torch.Tensor.argmax and numpy.argmax: the index of the first occurrence
\* of the maximum.
FirstMax(scores) ==
    CHOOSE i \in 1..Len(scores) :
        /\ \A j \in 1..Len(scores) : scores[j] <= scores[i]
        /\ \A j \in 1..(i - 1) : scores[j] < scores[i]

torch_argmax(scores) == FirstMax(scores)

np_argmax(scores) == FirstMax(scores)

(***************************************************************************)
(* Lambda_CropSAM2: _pick_largest_mask                                     *)
(***************************************************************************)
area_of_pixels_only(m) ==
    IF m.seg # NoSeg THEN SumSeq(AsUint8(m.seg)) ELSE 0

area_of(m) ==
    IF m.area # NoArea THEN m.area
    ELSE IF m.seg # NoSeg THEN SumSeq(AsUint8(m.seg))
    ELSE 0

AreaKeys(masks) == [i \in 1..Len(masks) |-> area_of(masks[i])]

Raised(err) == [kind |-> err, idx |-> 0, seg |-> <<>>]

pick_largest_mask(masks) ==
    IF masks = <<>> THEN Raised("ValueError:NoMasks")
    ELSE LET i == PyMax(AreaKeys(masks))
             seg == masks[i].seg
         IN IF seg = NoSeg THEN Raised("ValueError:MissingSegmentation")
            ELSE [kind |-> "ok", idx |-> i, seg |-> AsUint8(seg)]

(***************************************************************************)
(* Lambda_CropYOLO/lambda_python.py: _pick_most_salient_instance           *)
(* An ultralytics result has masks = None exactly when it holds no         *)
(* instance, so the instance list stands for the result.                   *)
(***************************************************************************)
MaskAreas(inst) == [i \in 1..Len(inst) |-> SumSeq(inst[i].mask)]

AreaOnlyScores(inst) == MaskAreas(inst)

SalienceScores(inst) ==
    [i \in 1..Len(inst) |-> MaskAreas(inst)[i] * inst[i].conf]

pick_most_salient_instance(inst) ==
    IF inst = <<>> THEN Raised("ValueError:NoMasksBoxes")
    ELSE [kind |-> "ok", idx |-> torch_argmax(SalienceScores(inst)), seg |-> <<>>]

(***************************************************************************)
(* Lambda_CropYOLO/lambda_function.py: selection in _segment_to_rgba_png   *)
(***************************************************************************)
ConfScores(inst) == [i \in 1..Len(inst) |-> inst[i].conf]

segment_best_idx(inst) ==
    IF inst = <<>> THEN [kind |-> "passthrough", idx |-> 0, seg |-> <<>>]
    ELSE [kind |-> "ok", idx |-> np_argmax(ConfScores(inst)), seg |-> <<>>]

(***************************************************************************)
(* The compositors: _apply_alpha_cutout (SAM2), _make_rgba_cutout          *)
(* (lambda_python.py) and the compositing part of _segment_to_rgba_png     *)
(* (lambda_function.py). Images and masks are grids: h rows of w values.   *)
(***************************************************************************)
MaxPix == 2      \* images and masks have at most MaxPix pixels

\* (width, height) of the images and masks considered
Sizes == {d \in (1..MaxPix) \X (1..MaxPix) : d[1] * d[2] <= MaxPix}

Grids(w, h, V) == [1..h -> [1..w -> V]]

\* RGB pixels of a decoded image
Colours == {<<10, 20, 30>>, <<200, 100, 0>>}

Images ==
    UNION {{[w |-> d[1], h |-> d[2], px |-> g] : g \in Grids(d[1], d[2], Colours)} :
              d \in Sizes}

NoImage == [w |-> 0, h |-> 0, px |-> <<>>]

\* a float mask value x is held as the integer x * FloatOne
FloatOne == 510

\* 0.0, 0.5, 128/255, 129/255 and 1.0
FloatLevels == {0, 255, 256, 258, 510}

\* the selected mask: a float32 array with values in [0,1], or a uint8 array
\* of 0/1 (seg.astype(np.uint8) in SAM2, a byte tensor in ultralytics)
Masks ==
    UNION {{[dtype |-> "float32", w |-> d[1], h |-> d[2], v |-> g] :
               g \in Grids(d[1], d[2], FloatLevels)}
           \cup {[dtype |-> "uint8", w |-> d[1], h |-> d[2], v |-> g] :
               g \in Grids(d[1], d[2], {0, 1})} : d \in Sizes}

\* r0.masks is None
NoMask == [dtype |-> "none", w |-> 0, h |-> 0, v |-> <<>>]

\* (mask * 255).astype(np.uint8): truncation for floats, 8-bit product for uint8
ScaleToU8(m) ==
    [y \in DOMAIN m.v |-> [x \in DOMAIN m.v[y] |->
        IF m.dtype = "float32" THEN (m.v[y][x] * 255) \div FloatOne
        ELSE (m.v[y][x] * 255) % 256]]

\* PIL Image.resize((w, h), Image.NEAREST): an output pixel takes the input
\* pixel under its centre
ResizeNearest(g, gw, gh, w, h) ==
    [y \in 1..h |-> [x \in 1..w |->
        g[((2 * y - 1) * gh) \div (2 * h) + 1][((2 * x - 1) * gw) \div (2 * w) + 1]]]

Abs(i) == IF i < 0 THEN -i ELSE i

Larger(a, b) == IF a > b THEN a ELSE b

\* PIL's bilinear (triangle) filter: weight of input sample xi for output
\* sample xo when n samples are resampled to m; the support is widened by
\* n/m when the image shrinks. Weights are in units of 1/(2*Larger(n, m)).
TriWeight(n, m, xi, xo) ==
    LET d == Abs((2 * xi - 1) * m - (2 * xo - 1) * n)
        s == 2 * Larger(n, m)
    IN IF d < s THEN s - d ELSE 0

\* one pass of ImagingResample over a row or column, rounded to 8 bits
Resample1D(row, m) ==
    [xo \in 1..m |->
        LET n == Len(row)
            num == SumSeq([xi \in 1..n |-> TriWeight(n, m, xi, xo) * row[xi]])
            den == SumSeq([xi \in 1..n |-> TriWeight(n, m, xi, xo)])
        IN (2 * num + den) \div (2 * den)]

\* PIL Image.resize((w, h), resample=Image.BILINEAR): a copy when the size
\* is the same, else the horizontal pass followed by the vertical pass
ResizeBilinear(g, gw, gh, w, h) ==
    IF gw = w /\ gh = h THEN g
    ELSE LET hor == [y \in 1..gh |-> Resample1D(g[y], w)]
             ver == [x \in 1..w |-> Resample1D([y \in 1..gh |-> hor[y][x]], h)]
         IN [y \in 1..h |-> [x \in 1..w |-> ver[x][y]]]

\* the RGB image with `alpha` as its fourth band: numpy slice assignment,
\* Image.putalpha and np.dstack all raise ValueError unless alpha has the
\* image's height and width
WithAlpha(img, alpha) ==
    IF Len(alpha) # img.h \/ Len(alpha[1]) # img.w THEN [kind |-> "ValueError"]
    ELSE [kind |-> "ok", w |-> Len(alpha[1]), h |-> Len(alpha),
          rgb |-> img.px, alpha |-> alpha]

\* SAM2 lines 89-104
apply_alpha_cutout(img_rgb, mask01) ==
    LET alpha == IF mask01.h # img_rgb.h \/ mask01.w # img_rgb.w
                 THEN ResizeNearest(ScaleToU8(mask01), mask01.w, mask01.h,
                                    img_rgb.w, img_rgb.h)
                 ELSE ScaleToU8(mask01)
    IN WithAlpha(img_rgb, alpha)

\* lambda_python.py lines 52-64
make_rgba_cutout(img_rgb, mask_2d) ==
    LET mask_u8 == IF mask_2d.dtype # "uint8"
                   THEN [y \in DOMAIN mask_2d.v |->
                            [x \in DOMAIN mask_2d.v[y] |->
                                IF 2 * mask_2d.v[y][x] > FloatOne
                                THEN 255 ELSE 0]]
                   ELSE mask_2d.v
    IN WithAlpha(img_rgb, mask_u8)

\* lambda_function.py lines 60-98, after the instance is chosen; the PNG
\* encoding is lossless, the result is given as the image it decodes to
segment_to_rgba_png(img, best_mask) ==
    IF best_mask = NoMask
    THEN WithAlpha(img, [y \in 1..img.h |-> [x \in 1..img.w |-> 255]])
    ELSE LET mask_img == ResizeBilinear(ScaleToU8(best_mask), best_mask.w,
                                        best_mask.h, img.w, img.h)
             alpha == [y \in DOMAIN mask_img |->
                          [x \in DOMAIN mask_img[y] |->
                              IF mask_img[y][x] > 128 THEN 255 ELSE 0]]
         IN WithAlpha(img, alpha)

\* a compositor that has not been called
NotApplied == [kind |-> "pending"]

(***************************************************************************)
(* DjangoAPI/MiniatureMuseum: galleries, exhibits and the requests of the  *)
(* exhibit endpoints.                                                      *)
(***************************************************************************)
MaxSlot == 0     \* slot_index values used by the requests are 0..MaxSlot
MaxReq == 2      \* requests taken on by the workers

Slots == 0..MaxSlot

\* the worker threads of the server, in the order they are given requests
Workers == <<"w1", "w2">>

Clients == {Workers[i] : i \in 1..Len(Workers)}

\* who sends a request: request.user when authenticated, else the
\* X-Guest-Id header, else nobody (views.py _actor, lines 31-38)
Actors ==
    {[kind |-> "user", id |-> "u1"], [kind |-> "user", id |-> "u2"],
     [kind |-> "guest", id |-> "x"], [kind |-> "none", id |-> ""]}

\* rows of table galleries (none of them soft-deleted)
Galleries ==
    {[id |-> "g1", user_style |-> "user", owner |-> "u1", guest_id |-> "",
      is_public |-> FALSE, deleted |-> FALSE],
     [id |-> "g2", user_style |-> "user", owner |-> "u1", guest_id |-> "",
      is_public |-> FALSE, deleted |-> FALSE]}

GalleryIds == {g.id : g \in Galleries}

GalleryOf(gid) == CHOOSE g \in Galleries : g.id = gid

\* a gallery_id of the URL that names no gallery
NoGallery == "g0"

NoRow == [id |-> 0, gallery |-> NoGallery, slot |-> 0, deleted |-> FALSE, title |-> ""]

IdleReq ==
    [op |-> "none", pc |-> "idle", gallery |-> NoGallery, slot |-> 0,
     bgallery |-> NoGallery, bslot |-> 0, title |-> "", inst |-> NoRow]

NoResponse ==
    [op |-> "none", status |-> 0, gallery |-> NoGallery, slot |-> 0,
     bgallery |-> NoGallery, row |-> NoRow]

\* table exhibits when the server starts: empty, or holding an exhibit
\* created earlier in slot 0 of g1, still there or soft-deleted since
SeededDbs ==
    {{}} \cup {{[id |-> 1, gallery |-> "g1", slot |-> 0, deleted |-> d,
                 title |-> Workers[1]]} : d \in BOOLEAN}

\* no request has been received
MusIdle ==
    /\ db = {}
    /\ nextId = 0
    /\ started = 0
    /\ req = [c \in Clients |-> IdleReq]
    /\ last = NoResponse
    /\ serial = FALSE
    /\ pre = {}

(***************************************************************************)
(* DjangoAPI/MiniatureMuseum with the ownership columns of both tables,    *)
(* for requests served one at a time. A null column is written "".         *)
(***************************************************************************)
MaxServed == 2   \* requests served

\* exhibit_slot_index_0_11 and validate_slot_index: the largest slot_index
SlotLimit == 11

\* slot_index values of a URL: <int:slot_index> takes any non-negative integer
UrlSlots == {0, 1, SlotLimit + 1}

\* slot_index values of a request body
BodySlots == {0, SlotLimit + 1}

\* what a request carries: the authenticated user (request.user) and the
\* X-Guest-Id header, "" when absent
Credentials ==
    {[user |-> "", guest |-> ""], [user |-> "u1", guest |-> ""],
     [user |-> "u2", guest |-> "x"], [user |-> "", guest |-> "x"],
     [user |-> "", guest |-> "y"]}

\* views.py lines 31-38
ActorOf(request) ==
    IF request.user # "" THEN [kind |-> "user", id |-> request.user]
    ELSE IF request.guest # "" THEN [kind |-> "guest", id |-> request.guest]
    ELSE [kind |-> "none", id |-> ""]

\* table galleries when the server starts: a public gallery of user u1 and
\* a private gallery of guest x; the slug of a gallery is written as its id
SeededGalleries ==
    {[id |-> "g1", user_style |-> "user", owner |-> "u1", guest_id |-> "",
      is_public |-> TRUE, deleted |-> FALSE],
     [id |-> "g3", user_style |-> "guest", owner |-> "", guest_id |-> "x",
      is_public |-> FALSE, deleted |-> FALSE]}

\* table exhibits when the server starts: empty, or holding an exhibit that
\* u1 created in slot 0 of g1, still there or soft-deleted since
SeededExhibits ==
    {{}} \cup {{[id |-> 1, gallery |-> "g1", user_style |-> "user",
                 owner |-> "u1", guest_id |-> "", slot |-> 0,
                 deleted |-> d]} : d \in BOOLEAN}

\* the id of the gallery a create request adds
NewGallery == "g4"

\* gallery ids and slugs a URL or a body can name
GalleryNames == {"g1", "g3", NewGallery}

GalleryChecksOff(g) == TRUE

\* models.py lines 75-92: both check constraints of table galleries
GalleryChecks(g) ==
    /\ \/ g.user_style = "user" /\ g.owner # "" /\ g.guest_id = ""
       \/ g.user_style = "guest"
    /\ \/ g.user_style = "guest" /\ g.owner = "" /\ g.guest_id # ""
       \/ g.user_style = "user"

\* models.py lines 153-171: the three check constraints of table exhibits
ExhibitChecks(e) ==
    /\ e.slot >= 0 /\ e.slot <= SlotLimit
    /\ \/ e.user_style = "user" /\ e.owner # "" /\ e.guest_id = ""
       \/ e.user_style = "guest"
    /\ \/ e.user_style = "guest" /\ e.owner = "" /\ e.guest_id # ""
       \/ e.user_style = "user"

\* serializers.py lines 121-138 and 101-118: fields of the public response
GalleryPublicFields ==
    {"id", "slug", "title", "layout_cols", "layout_rows", "is_public",
     "cover_render_url", "created_at", "updated_at", "exhibits"}

ExhibitPublicFields ==
    {"id", "slot_index", "image_original_url", "image_cutout_png_url",
     "material_params", "style", "title", "description", "created_at",
     "updated_at"}

NoExhibit ==
    [id |-> 0, gallery |-> NoGallery, user_style |-> "", owner |-> "",
     guest_id |-> "", slot |-> 0, deleted |-> FALSE]

NoReply ==
    [op |-> "none", cred |-> [user |-> "", guest |-> ""], status |-> 0,
     gallery |-> NoGallery, slot |-> 0, bgallery |-> NoGallery, bslot |-> 0,
     id |-> 0, ids |-> {}, listed |-> <<>>, fields |-> {}]

\* no request has been served
GalIdle ==
    /\ galleries = {}
    /\ exhibits = {}
    /\ served = 0
    /\ reply = NoReply

(***************************************************************************)
(* core: upload sessions and notebook pages.                               *)
(***************************************************************************)
MaxIssued == 2   \* upload sessions issued
MaxPages == 3    \* pages created

\* the users of table users; request.user is "" when nobody is authenticated
Users == {"u1", "u2"}

\* values of field purpose of an issue request
Purposes == {"sticker_png"}

\* get() found no row
NoSession ==
    [id |-> 0, user |-> "", purpose |-> "",
     s3_key |-> [user |-> "", purpose |-> "", uuid |-> 0], status |-> ""]

\* no confirm request in progress
IdleConfirm ==
    [pc |-> "idle", user |-> "", id |-> 0, session |-> NoSession,
     headed |-> FALSE]

NoUpload == [op |-> "none", user |-> "", id |-> 0, status |-> 0]

\* nothing has been issued or uploaded
UpIdle ==
    /\ sessions = {}
    /\ objects = {}
    /\ issued = 0
    /\ upc = [c \in Clients |-> IdleConfirm]
    /\ upLast = NoUpload

\* rows of table notebooks, and a notebook_id that names none of them
Notebooks == {"n1", "n2"}

NoNotebook == "n0"

\* no page creation in progress
IdlePage == [pc |-> "idle", notebook |-> "", page |-> 0, last_position |-> 0]

\* no page has been created
PgIdle ==
    /\ links = <<>>
    /\ pages = 0
    /\ ppc = [c \in Clients |-> IdlePage]

\* nothing has happened in the Django application
WebIdle == GalIdle /\ UpIdle /\ PgIdle

(***************************************************************************)
(* The handlers.                                                           *)
(***************************************************************************)
MaxInv == 3      \* invocations served by the process
MaxThreads == 2  \* threads of one process calling _load_model
MaxCalls == 3    \* calls of _load_model made by the threads together

Threads == 1..MaxThreads

\* default of PRESIGN_EXPIRES, PRESIGNED_EXPIRES and presign_expires (seconds)
DefaultExpires == 3600

\* values of PRESIGN_EXPIRES / PRESIGNED_EXPIRES and of the event's
\* presign_expires field
ExpiresValues == {DefaultExpires, 900}

Handlers == {"OBJ", "SAM2", "YOLOF", "YOLOP"}
UrlHandlers == {"OBJ", "SAM2", "YOLOP"}

\* image_url values: https://a/cat.jpg and https://b/cat ; base is the last
\* path segment split at its dots
UrlList ==
    << [host |-> "a", base |-> <<"cat", "jpg">>],
       [host |-> "b", base |-> <<"cat">>] >>
Urls == {UrlList[i] : i \in 1..Len(UrlList)}
NoUrl == [host |-> "", base |-> <<>>]
InlineBytes == [host |-> "inline", base |-> <<>>]   \* YOLOF: image bytes in the body

\* keys of the blob store
NoKey == [kind |-> "none", name |-> <<>>, n |-> 0]
UserKeys == {[kind |-> "user", name |-> <<"k1">>, n |-> 0]}
NoBucket == ""

\* hashlib.sha256(url).hexdigest()[:12], as a numbering of the modelled URLs
\* (distinct modelled URLs have distinct digests)
Sha256Hex12(url) == CHOOSE i \in 1..Len(UrlList) : UrlList[i] = url

\* name, dot, ext = base.rpartition("."); return name if dot else base
safe_basename_from_url(url) ==
    LET base == IF url.base = <<>> THEN <<"image">> ELSE url.base
    IN IF Len(base) > 1 THEN SubSeq(base, 1, Len(base) - 1) ELSE base

make_output_key(url) ==
    [kind |-> "url", name |-> safe_basename_from_url(url), n |-> Sha256Hex12(url)]

\* f"{prefix}{uuid.uuid4().hex}.png": uuid4 is modelled as a value never drawn
\* before by the process
UuidKeyStale(ctr) == [kind |-> "uuid", name |-> <<"cutouts/">>, n |-> 1]

UuidKey(ctr) == [kind |-> "uuid", name |-> <<"cutouts/">>, n |-> ctr + 1]

\* statements of lambda_handler, and the pipeline stage each belongs to
\* (0: initialisation, 1 resolve input, 2 segment, 3 select, 4 composite,
\*  5 store)
Stage(step) ==
    CASE step \in {"import", "load"} -> 0
      [] step \in {"parse", "fetch", "decode"} -> 1
      [] step = "segment" -> 2
      [] step = "select" -> 3
      [] step = "composite" -> 4
      [] step \in {"put", "sign"} -> 5

FirstStep(f) ==
    CASE f = "OBJ" -> "import"
      [] f = "SAM2" -> "load"
      [] OTHER -> "parse"

\* statement that follows a successful fetch and a successful backend call
AfterFetch(f) == IF f = "OBJ" THEN "segment" ELSE "decode"

AfterSegmentStoresAtOnce(f) == "put"

AfterSegment(f) == IF f = "OBJ" THEN "put" ELSE "select"

\* the except clauses of each lambda_handler
ExceptStatus(f, exception) ==
    CASE f = "OBJ" -> IF exception = "HTTPError" THEN 502 ELSE 500
      [] f = "SAM2" -> 500
      [] f = "YOLOF" -> 400
      [] f = "YOLOP" -> 500

ExceptionOf(c) == IF c = "fetch_http" THEN "HTTPError" ELSE "Exception"

\* events a caller can send to handler f; an explicit key may repeat a key
\* an earlier response named
Events(f, past) ==
    CASE f = "OBJ" ->
            {[src |-> u, key |-> NoKey, bucket |-> NoBucket, presigned |-> FALSE,
              form |-> "json", bad |-> b, expires |-> DefaultExpires] :
                u \in Urls \cup {NoUrl}, b \in BOOLEAN}
      [] f = "SAM2" ->
            {[src |-> u, key |-> NoKey, bucket |-> bk, presigned |-> p,
              form |-> "dict", bad |-> b, expires |-> x] :
                u \in Urls \cup {NoUrl}, bk \in {NoBucket, "b1"},
                p \in BOOLEAN, b \in BOOLEAN, x \in ExpiresValues}
      [] f = "YOLOF" ->
            {[src |-> u, key |-> k, bucket |-> bk, presigned |-> TRUE,
              form |-> fm, bad |-> b, expires |-> DefaultExpires] :
                u \in {NoUrl, InlineBytes}, k \in {NoKey} \cup UserKeys \cup past,
                bk \in {NoBucket, "b1"}, fm \in {"json", "binary"},
                b \in BOOLEAN}
      [] f = "YOLOP" ->
            {[src |-> u, key |-> k, bucket |-> NoBucket, presigned |-> p,
              form |-> "dict", bad |-> FALSE, expires |-> DefaultExpires] :
                u \in Urls \cup {NoUrl}, k \in {NoKey} \cup UserKeys \cup past,
                p \in BOOLEAN}

Envs(f) ==
    CASE f = "OBJ" ->
            {[defaultBucket |-> TRUE, returnPresigned |-> p, presignExpires |-> x] :
                p \in BOOLEAN, x \in ExpiresValues}
      [] f = "SAM2" ->
            {[defaultBucket |-> d, returnPresigned |-> FALSE,
              presignExpires |-> DefaultExpires] : d \in BOOLEAN}
      [] f = "YOLOF" ->
            {[defaultBucket |-> d, returnPresigned |-> FALSE, presignExpires |-> x] :
                d \in BOOLEAN, x \in ExpiresValues}
      [] f = "YOLOP" ->
            {[defaultBucket |-> TRUE, returnPresigned |-> FALSE, presignExpires |-> x] :
                x \in ExpiresValues}

\* bucket the invocation writes to
Bucket ==
    IF fn \in {"SAM2", "YOLOF"} /\ ev.bucket # NoBucket THEN ev.bucket
    ELSE IF env.defaultBucket THEN "b0" ELSE NoBucket

LamInit ==
    /\ fn \in Handlers
    /\ env \in Envs(fn)
    /\ model = 0
    /\ mask_generator = 0
    /\ builds = 0
    /\ inv = 0
    /\ pc = "idle"
    /\ ev = [src |-> NoUrl, key |-> NoKey, bucket |-> NoBucket,
             presigned |-> FALSE, form |-> "dict", bad |-> FALSE,
             expires |-> DefaultExpires]
    /\ trace = <<>>
    /\ cause = "none"
    /\ nodet = FALSE
    /\ status = 0
    /\ exc = FALSE
    /\ outKey = NoKey
    /\ writes = <<>>
    /\ uuidCtr = 0
    /\ log = {}
    /\ refs = {}
    /\ expiry = 0

\* whether a presigned URL is generated after the write
\* OBJ 100, SAM2 177, YOLOP 117-124, YOLOF _put_to_s3 111-115
NeedSign ==
    CASE fn = "OBJ" -> env.returnPresigned
      [] fn = "SAM2" -> ev.presigned
      [] fn = "YOLOP" -> ev.presigned
      [] fn = "YOLOF" -> TRUE

\* the result references in the body and headers of a 200 response
\* OBJ 100-112 result_url; SAM2 175-180 s3_url and presigned_url;
\* YOLOP 117-133 url; YOLOF 135-150 body and X-S3-URL
ResponseRefs ==
    CASE fn = "OBJ" -> IF env.returnPresigned THEN {"presigned"} ELSE {"public"}
      [] fn = "SAM2" -> {"s3uri"} \cup (IF ev.presigned THEN {"presigned"} ELSE {})
      [] fn = "YOLOP" -> IF ev.presigned THEN {"presigned"} ELSE {"s3uri"}
      [] fn = "YOLOF" -> {"inline"} \cup (IF ev.key # NoKey THEN {"presigned"} ELSE {})

\* the ExpiresIn argument of generate_presigned_url
\* OBJ 74 PRESIGNED_EXPIRES, SAM2 155/178 presign_expires, YOLOP 123
\* PRESIGN_EXPIRES, YOLOF 114 the literal 3600
ExpiresIn ==
    CASE fn = "OBJ" -> env.presignExpires
      [] fn = "SAM2" -> ev.expires
      [] fn = "YOLOP" -> env.presignExpires
      [] fn = "YOLOF" -> 3600

\* ---- ways a statement ends ----
\* the statement `step` completed; control moves to `next`
Goto(step, next) ==
    /\ pc' = next
    /\ trace' = Append(trace, step)
    /\ UNCHANGED <<cause, nodet, status, exc, log, refs>>

\* lambda_handler returns {"statusCode": code, ...}; nd: no candidate was found
Return(step, code, c, nd) ==
    /\ pc' = "idle"
    /\ trace' = Append(trace, step)
    /\ cause' = c
    /\ nodet' = nd
    /\ status' = code
    /\ log' = log \cup {[cause |-> c, status |-> code, nodet |-> nd]}
    /\ refs' = IF code = 200 THEN ResponseRefs ELSE {}
    /\ UNCHANGED exc

\* the statement raised inside the try block: the except clause answers
Raise(step, c) == Return(step, ExceptStatus(fn, ExceptionOf(c)), c, nodet)

\* the statement raised outside every try block
Escape(step, c) ==
    /\ pc' = "idle"
    /\ trace' = Append(trace, step)
    /\ cause' = c
    /\ exc' = TRUE
    /\ UNCHANGED <<nodet, status, log, refs>>

PastKeys == {writes[i].key : i \in 1..Len(writes)}

Invoke ==
    /\ pc = "idle"
    /\ inv < MaxInv
    /\ \E e \in Events(fn, PastKeys) : ev' = e
    /\ inv' = inv + 1
    /\ pc' = FirstStep(fn)
    /\ trace' = <<>>
    /\ cause' = "none"
    /\ nodet' = FALSE
    /\ status' = 0
    /\ exc' = FALSE
    /\ outKey' = NoKey
    /\ refs' = {}
    /\ expiry' = 0
    /\ UNCHANGED <<fn, env, model, mask_generator, builds, writes, uuidCtr, log>>
    /\ UNCHANGED nonLamVars

\* OBJ line 78: from rembg import remove, before the try block
Import ==
    /\ pc = "import"
    /\ \/ Goto("import", "parse")
       \/ Escape("import", "import")
    /\ UNCHANGED <<fn, env, model, mask_generator, builds, inv, ev, outKey, writes, uuidCtr, expiry>>
    /\ UNCHANGED nonLamVars

\* SAM2 line 38: if _mask_generator is not None
NeverLoaded == FALSE

AlreadyLoaded == mask_generator # 0

\* SAM2 line 141: _load_model(), lines 37-56
load_model ==
    /\ pc = "load"
    /\ \/ /\ AlreadyLoaded               \* line 39: return
          /\ Goto("load", "parse")
          /\ UNCHANGED <<model, mask_generator, builds>>
       \/ /\ ~AlreadyLoaded
          /\ \/ /\ Raise("load", "load")  \* line 43: FileNotFoundError
                /\ UNCHANGED <<model, mask_generator, builds>>
             \/ /\ Raise("load", "load")  \* build_sam2 raised
                /\ builds' = builds + 1
                /\ UNCHANGED <<model, mask_generator>>
             \/ /\ Raise("load", "load")  \* SAM2AutomaticMaskGenerator raised
                /\ builds' = builds + 1
                /\ model' = builds + 1
                /\ UNCHANGED mask_generator
             \/ /\ Goto("load", "parse")
                /\ builds' = builds + 1
                /\ model' = builds + 1
                /\ mask_generator' = builds + 1
    /\ UNCHANGED <<fn, env, inv, ev, outKey, writes, uuidCtr, expiry>>
    /\ UNCHANGED nonLamVars

\* the statements between the try and the first I/O: payload parsing and
\* the checks of the required fields
\* OBJ 80-87, SAM2 143-155, YOLOF 121-125 with _read_request_bytes, YOLOP 77-82
Parse ==
    /\ pc = "parse"
    /\ \/ /\ fn = "OBJ"
          /\ IF ev.bad THEN Raise("parse", "parse")
             ELSE IF ev.src = NoUrl THEN Return("parse", 400, "input", FALSE)
             ELSE Goto("parse", "fetch")
          /\ UNCHANGED <<outKey, uuidCtr>>
       \/ /\ fn = "SAM2"
          /\ IF ev.src = NoUrl THEN Return("parse", 400, "input", FALSE)
             ELSE IF Bucket = NoBucket THEN Return("parse", 400, "input", FALSE)
             ELSE IF ev.bad THEN Raise("parse", "parse")
             ELSE Goto("parse", "fetch")
          /\ UNCHANGED <<outKey, uuidCtr>>
       \/ /\ fn = "YOLOF"
          /\ IF ev.bad THEN Raise("parse", "parse")
             ELSE IF ev.form = "json" /\ ev.src = NoUrl THEN Raise("parse", "input")
             ELSE Goto("parse", "decode")
          /\ UNCHANGED <<outKey, uuidCtr>>
       \/ /\ fn = "YOLOP"
          /\ IF ev.src = NoUrl
             THEN /\ Raise("parse", "input")
                  /\ UNCHANGED <<outKey, uuidCtr>>
             ELSE /\ Goto("parse", "fetch")
                  /\ IF ev.key # NoKey
                     THEN /\ outKey' = ev.key
                          /\ UNCHANGED uuidCtr
                     ELSE /\ outKey' = UuidKey(uuidCtr)
                          /\ uuidCtr' = uuidCtr + 1
    /\ UNCHANGED <<fn, env, model, mask_generator, builds, inv, ev, writes, expiry>>
    /\ UNCHANGED nonLamVars

\* requests.get(...); r.raise_for_status()
\* OBJ _download_image 46-50, SAM2 _fetch_image 61-62, YOLOP _download_image 29-30
Fetch ==
    /\ pc = "fetch"
    /\ \/ Goto("fetch", AfterFetch(fn))
       \/ Raise("fetch", "fetch_http")    \* non-2xx: requests.HTTPError
       \/ Raise("fetch", "fetch_conn")    \* ConnectionError, Timeout
    /\ UNCHANGED <<fn, env, model, mask_generator, builds, inv, ev, outKey, writes, uuidCtr, expiry>>
    /\ UNCHANGED nonLamVars

\* Image.open(io.BytesIO(...)).convert("RGB")
\* SAM2 63, YOLOP 31, YOLOF 60
Decode ==
    /\ pc = "decode"
    /\ \/ /\ ev.src # NoUrl
          /\ Goto("decode", "segment")
       \/ Raise("decode", "decode")       \* not an image (or no bytes at all)
    /\ UNCHANGED <<fn, env, model, mask_generator, builds, inv, ev, outKey, writes, uuidCtr, expiry>>
    /\ UNCHANGED nonLamVars

\* the call of the segmentation backend
\* OBJ 93 remove(img_bytes), SAM2 161-163, YOLOF 65-66, YOLOP 89-90
Segment ==
    /\ pc = "segment"
    /\ \/ Goto("segment", AfterSegment(fn))
       \/ Raise("segment", "inference")
       \/ /\ fn = "OBJ"                   \* rembg decodes the bytes itself
          /\ Raise("segment", "decode")
    /\ UNCHANGED <<fn, env, model, mask_generator, builds, inv, ev, outKey, writes, uuidCtr, expiry>>
    /\ UNCHANGED nonLamVars

\* statement after the PNG is ready in YOLOF (lines 129-150)
AfterPng(step, nd) ==
    IF ev.key = NoKey
    THEN Return(step, 200, "none", nd)
    ELSE /\ pc' = "put"
         /\ trace' = Append(trace, step)
         /\ nodet' = nd
         /\ UNCHANGED <<cause, status, exc, log, refs>>

\* SAM2 166, YOLOP 93, YOLOF 68-83
Select ==
    /\ pc = "select"
    /\ \/ /\ fn = "SAM2"
          /\ \E masks \in ListsUpTo(Sam2MaskDicts, 1) :
                LET r == pick_largest_mask(masks)
                IN CASE r.kind = "ok" -> Goto("select", "composite")
                     [] r.kind = "ValueError:NoMasks" ->
                            Return("select", ExceptStatus(fn, "Exception"),
                                   "notfound", TRUE)
                     [] OTHER -> Raise("select", "select")
       \/ /\ fn = "YOLOP"
          /\ \E inst \in ListsUpTo(YoloInstances, 1) :
                LET r == pick_most_salient_instance(inst)
                IN IF r.kind = "ok" THEN Goto("select", "composite")
                   ELSE Return("select", ExceptStatus(fn, "Exception"),
                               "notfound", TRUE)
       \/ /\ fn = "YOLOF"
          /\ \E inst \in ListsUpTo(YoloInstances, 1) :
                LET r == segment_best_idx(inst)
                IN IF r.kind = "ok" THEN Goto("select", "composite")
                   ELSE AfterPng("select", TRUE)
    /\ UNCHANGED <<fn, env, model, mask_generator, builds, inv, ev, outKey, writes, uuidCtr, expiry>>
    /\ UNCHANGED nonLamVars

\* SAM2 169 _apply_alpha_cutout, YOLOP 97-104 _make_rgba_cutout and the save
\* to /tmp/{uuid4}.png, YOLOF 85-98
Composite ==
    /\ pc = "composite"
    /\ \/ IF fn = "YOLOF" THEN AfterPng("composite", nodet)
          ELSE Goto("composite", "put")
       \/ Raise("composite", "composite")
    /\ uuidCtr' = IF fn = "YOLOP" THEN uuidCtr + 1 ELSE uuidCtr
    /\ UNCHANGED <<fn, env, model, mask_generator, builds, inv, ev, outKey, writes, expiry>>
    /\ UNCHANGED nonLamVars

\* the key put_object is called with
\* OBJ 96, SAM2 172, YOLOP 78-82, YOLOF 121/130
KeyToWrite ==
    CASE fn = "OBJ" -> make_output_key(ev.src)
      [] fn = "SAM2" -> UuidKey(uuidCtr)
      [] fn = "YOLOP" -> outKey
      [] fn = "YOLOF" -> ev.key

\* s3.put_object(...)
\* OBJ 97 _put_png, SAM2 173 _put_png_to_s3, YOLOP 107-114, YOLOF 130-133
Put ==
    /\ pc = "put"
    /\ \/ /\ fn = "YOLOF" /\ Bucket = NoBucket
          /\ Raise("put", "config")       \* ValueError, line 132
          /\ UNCHANGED <<outKey, writes>>
       \/ /\ ~(fn = "YOLOF" /\ Bucket = NoBucket)
          /\ outKey' = KeyToWrite
          /\ \/ /\ writes' = Append(writes,
                        [inv |-> inv, bucket |-> Bucket, key |-> KeyToWrite,
                         explicit |-> (ev.key # NoKey), url |-> ev.src])
                /\ IF NeedSign THEN Goto("put", "sign")
                   ELSE Return("put", 200, "none", nodet)
             \/ /\ Raise("put", "put")
                /\ UNCHANGED writes
    /\ uuidCtr' = IF fn = "SAM2" THEN uuidCtr + 1 ELSE uuidCtr
    /\ UNCHANGED <<fn, env, model, mask_generator, builds, inv, ev, expiry>>
    /\ UNCHANGED nonLamVars

\* s3.generate_presigned_url(...)
\* OBJ 101, SAM2 178, YOLOP 120-124, YOLOF 111-115
Sign ==
    /\ pc = "sign"
    /\ expiry' = ExpiresIn
    /\ \/ Return("sign", 200, "none", nodet)
       \/ Raise("sign", "sign")
    /\ UNCHANGED <<fn, env, model, mask_generator, builds, inv, ev, outKey, writes, uuidCtr>>
    /\ UNCHANGED nonLamVars

Pending == [kind |-> "pending", idx |-> 0, seg |-> <<>>]

SelIdle ==
    /\ sam2Masks = <<>>
    /\ yoloInst = <<>>
    /\ largestRes = Pending
    /\ salientRes = Pending
    /\ confRes = Pending

\* no compositor has been applied
CompIdle ==
    /\ srcImg = NoImage
    /\ selMask = NoMask
    /\ cutSam2 = NotApplied
    /\ cutYolop = NotApplied
    /\ cutYolof = NotApplied

\* no thread is inside _load_model
LdIdle ==
    /\ tpc = [t \in Threads |-> "idle"]
    /\ calls = 0
    /\ raised = 0

Init == LamInit /\ SelIdle /\ CompIdle /\ LdIdle /\ MusIdle /\ WebIdle

Next ==
    \/ Invoke
    \/ Import
    \/ load_model
    \/ Parse
    \/ Fetch
    \/ Decode
    \/ Segment
    \/ Select
    \/ Composite
    \/ Put
    \/ Sign

Spec == Init /\ [][Next]_vars

(***************************************************************************)
(* Properties of the handlers (checked under Spec).                        *)
(***************************************************************************)
Done == pc = "idle" /\ inv > 0

InTrace(step) == \E k \in 1..Len(trace) : trace[k] = step

\* put_object calls of the running (or last) invocation that succeeded
WritesOfInv == {i \in 1..Len(writes) : writes[i].inv = inv}

\* failures of one of the five pipeline stages
StageFailures ==
    {"parse", "input", "fetch_http", "fetch_conn", "decode", "inference",
     "notfound", "select", "composite", "config", "put", "sign"}

\* C1: whatever step fails, lambda_handler returns a response with a
\* statusCode; no exception leaves lambda_handler.
C1_NoExceptionLeavesHandler == Done => (~exc /\ status # 0)

\* C2: when the segmenter produces no candidate, selection does not raise and
\* the response's status differs from every status the handler uses for a
\* hard failure.
C2_NoDetectionIsDistinctOutcome ==
    \A r \in log :
        (r.nodet /\ r.cause \in {"none", "notfound"}) =>
            /\ r.cause = "none"
            /\ \A h \in log :
                  h.cause \notin {"none", "notfound"} => h.status # r.status

\* C3: an unreachable image_url (connection failure, timeout, non-2xx status)
\* gets a status different from the one undecodable bytes get.
C3_FetchErrorDistinctFromDecodeError ==
    \A a, b \in log :
        (a.cause \in {"fetch_http", "fetch_conn"} /\ b.cause = "decode") =>
            a.status # b.status

\* C4: an event without an image source gets a 4xx response whatever the state
\* of the model, and the invocation does no fetch, inference or storage write.
C4_MissingSourceIsClientError ==
    (Done /\ ev.src = NoUrl) =>
        /\ ~exc
        /\ status \in 400..499
        /\ ~InTrace("fetch") /\ ~InTrace("segment") /\ ~InTrace("put")

\* C5: a failure of the segmentation backend or of the blob store (put_object,
\* presigned-URL generation) gets a 5xx response, never a 4xx one.
C5_BackendOrStoreFailureIsServerError ==
    \A r \in log :
        r.cause \in {"inference", "put", "sign"} => r.status \in 500..599

SameTarget(i, j) ==
    /\ writes[i].bucket = writes[j].bucket
    /\ writes[i].key = writes[j].key

StageOrder ==
    \A i, j \in 1..Len(trace) :
        i < j => (Stage(trace[i]) <= Stage(trace[j]) /\ trace[i] # trace[j])

\* C7 as claimed: the stages run strictly in the order resolve, segment,
\* select, composite, store, none twice; a storage write happens only after
\* the four earlier stages succeeded; a failure of any stage ends the
\* invocation with an error response and no storage write.
C7_StagesStrictNoWriteOnFailure ==
    /\ StageOrder
    /\ WritesOfInv # {} =>
          /\ InTrace("parse") /\ InTrace("segment")
          /\ fn # "OBJ" => (InTrace("select") /\ ~nodet /\ InTrace("composite"))
    /\ (Done /\ cause \in StageFailures) => (status >= 400 /\ WritesOfInv = {})

\* C7 as amended: the stages run in the order resolve, segment, select,
\* composite, store, none twice and never going back; a failure of resolve,
\* segment, select or composite, or of put_object itself, ends the invocation
\* with an error response and no storage write; the one storage write of an
\* invocation happens only after resolve, segment and select completed, and
\* after composite unless Lambda_CropYOLO/lambda_function.py found no
\* detection and passes the source image through; a failure of URL signing
\* ends the invocation with an error response after the object was written.
C7_StagesForwardWriteLast ==
    /\ StageOrder
    /\ WritesOfInv # {} =>
          /\ Cardinality(WritesOfInv) = 1
          /\ InTrace("parse") /\ InTrace("segment")
          /\ fn \in UrlHandlers => InTrace("fetch")
          /\ fn # "OBJ" => (InTrace("decode") /\ InTrace("select"))
          /\ (fn # "OBJ" /\ ~(fn = "YOLOF" /\ nodet)) => InTrace("composite")
          /\ cause \in {"none", "sign"}
    /\ (Done /\ cause \in (StageFailures \ {"sign"})) =>
          (status >= 400 /\ WritesOfInv = {})
    /\ (Done /\ cause = "sign") => (status >= 400 /\ WritesOfInv # {})

\* an invocation that ran all five stages and answered 200
C7_Witness ==
    /\ Done
    /\ status = 200
    /\ WritesOfInv # {}
    /\ InTrace("select") /\ InTrace("composite") /\ InTrace("sign")

\* C17: in Lambda_CropSAM2, once a call of _load_model has succeeded, every
\* later call is a no-op that leaves _model and _mask_generator unchanged;
\* and after a call that failed (checkpoint missing, build error)
\* _mask_generator is still None, so that the next invocation's call does not
\* return early but attempts the load again.
C17_LoadOnceRetryAfterFailure ==
    /\ [][(pc = "load" /\ mask_generator # 0) =>
            (pc' = "parse" /\ model' = model /\ mask_generator' = mask_generator
             /\ builds' = builds)]_vars
    /\ []((Done /\ cause = "load") => mask_generator = 0)
    /\ [][(pc = "load" /\ mask_generator = 0 /\ cause' # "load") =>
            (builds' = builds + 1 /\ model' = builds' /\ mask_generator' = model')]_vars

\* a first invocation failed in _load_model, a later one loaded the model,
\* and the last one went through _load_model with the model already loaded
C17_Witness ==
    /\ fn = "SAM2"
    /\ inv = 3
    /\ \E r \in log : r.cause = "load"
    /\ Len(writes) = 2
    /\ mask_generator # 0
    /\ builds = 1

\* C11: every successful (200) response carries exactly one kind of result
\* reference (inline binary, s3:// URI, public/CDN URL or presigned URL); no
\* response mixes two kinds.
C11_OneReferenceKindPerResponse ==
    (Done /\ status = 200) => Cardinality(refs) = 1

\* C12: an invocation of the handler that returns the PNG inline in the body
\* (Lambda_CropYOLO/lambda_function.py) performs no put_object, whatever the
\* event.
C12_InlineBinaryWritesNothing ==
    (fn = "YOLOF" /\ inv > 0) => WritesOfInv = {}

\* C13: whenever a handler asks for a presigned URL, the ExpiresIn it passes
\* equals the configured value: the event's presign_expires where the handler
\* reads one (SAM2), the process-wide PRESIGN_EXPIRES / PRESIGNED_EXPIRES
\* setting otherwise.
C13_ExpiryEqualsConfiguredValue ==
    InTrace("sign") =>
        expiry = (IF fn = "SAM2" THEN ev.expires ELSE env.presignExpires)

(***************************************************************************)
(* SpecSel: the selectors applied to every bounded candidate list.         *)
(***************************************************************************)
LamIdle ==
    /\ fn = "SAM2"
    /\ env = [defaultBucket |-> TRUE, returnPresigned |-> FALSE,
              presignExpires |-> DefaultExpires]
    /\ model = 0
    /\ mask_generator = 0
    /\ builds = 0
    /\ inv = 0
    /\ pc = "idle"
    /\ ev = [src |-> NoUrl, key |-> NoKey, bucket |-> NoBucket,
             presigned |-> FALSE, form |-> "dict", bad |-> FALSE,
             expires |-> DefaultExpires]
    /\ trace = <<>>
    /\ cause = "none"
    /\ nodet = FALSE
    /\ status = 0
    /\ exc = FALSE
    /\ outKey = NoKey
    /\ writes = <<>>
    /\ uuidCtr = 0
    /\ log = {}
    /\ refs = {}
    /\ expiry = 0

SelInit ==
    /\ LamIdle
    /\ CompIdle
    /\ LdIdle
    /\ MusIdle
    /\ WebIdle
    /\ \/ /\ sam2Masks \in ListsUpTo(Sam2MaskDicts, MaxLen)
          /\ yoloInst = <<>>
       \/ /\ sam2Masks = <<>>
          /\ yoloInst \in ListsUpTo(YoloInstances, MaxLen)
    /\ largestRes = Pending
    /\ salientRes = Pending
    /\ confRes = Pending

ApplyPickLargest ==
    /\ largestRes = Pending
    /\ yoloInst = <<>>
    /\ largestRes' = pick_largest_mask(sam2Masks)
    /\ UNCHANGED <<sam2Masks, yoloInst, salientRes, confRes>>
    /\ UNCHANGED nonSelVars

ApplyPickSalient ==
    /\ salientRes = Pending
    /\ sam2Masks = <<>>
    /\ salientRes' = pick_most_salient_instance(yoloInst)
    /\ UNCHANGED <<sam2Masks, yoloInst, largestRes, confRes>>
    /\ UNCHANGED nonSelVars

ApplySegmentBest ==
    /\ confRes = Pending
    /\ sam2Masks = <<>>
    /\ confRes' = segment_best_idx(yoloInst)
    /\ UNCHANGED <<sam2Masks, yoloInst, largestRes, salientRes>>
    /\ UNCHANGED nonSelVars

SelNext == ApplyPickLargest \/ ApplyPickSalient \/ ApplySegmentBest

SpecSel == SelInit /\ [][SelNext]_vars

(***************************************************************************)
(* SpecComp: the compositors applied to every bounded image and mask.      *)
(***************************************************************************)
CompInit ==
    /\ LamIdle
    /\ SelIdle
    /\ LdIdle
    /\ MusIdle
    /\ WebIdle
    /\ srcImg \in Images
    /\ selMask \in Masks \cup {NoMask}
    /\ cutSam2 = NotApplied
    /\ cutYolop = NotApplied
    /\ cutYolof = NotApplied

\* SAM2 line 169; the mask is what _pick_largest_mask returned
ApplyAlphaCutout ==
    /\ cutSam2 = NotApplied
    /\ selMask.dtype = "uint8"
    /\ cutSam2' = apply_alpha_cutout(srcImg, selMask)
    /\ UNCHANGED <<srcImg, selMask, cutYolop, cutYolof>>
    /\ UNCHANGED nonCompVars

\* lambda_python.py line 97; _pick_most_salient_instance has returned an index
MakeRgbaCutout ==
    /\ cutYolop = NotApplied
    /\ selMask # NoMask
    /\ cutYolop' = make_rgba_cutout(srcImg, selMask)
    /\ UNCHANGED <<srcImg, selMask, cutSam2, cutYolof>>
    /\ UNCHANGED nonCompVars

\* lambda_function.py line 128
SegmentToRgbaPng ==
    /\ cutYolof = NotApplied
    /\ cutYolof' = segment_to_rgba_png(srcImg, selMask)
    /\ UNCHANGED <<srcImg, selMask, cutSam2, cutYolop>>
    /\ UNCHANGED nonCompVars

CompNext == ApplyAlphaCutout \/ MakeRgbaCutout \/ SegmentToRgbaPng

SpecComp == CompInit /\ [][CompNext]_vars

(***************************************************************************)
(* SpecLoad: threads of one SAM2 process calling _load_model, one          *)
(* statement at a time; nothing in the module serialises them.             *)
(***************************************************************************)
LoadInit ==
    /\ LamIdle
    /\ SelIdle
    /\ CompIdle
    /\ LdIdle
    /\ MusIdle
    /\ WebIdle

\* thread t moves to statement `next` of _load_model
LdGoto(t, next) ==
    /\ tpc' = [tpc EXCEPT ![t] = next]
    /\ UNCHANGED raised

\* the statement thread t is at raises: the call of _load_model ends
LdRaise(t) ==
    /\ tpc' = [tpc EXCEPT ![t] = "idle"]
    /\ raised' = raised + 1

\* line 141: an invocation on thread t calls _load_model()
LdCall(t) ==
    /\ tpc[t] = "idle"
    /\ calls < MaxCalls
    /\ calls' = calls + 1
    /\ LdGoto(t, "check")
    /\ UNCHANGED <<model, mask_generator, builds>>
    /\ UNCHANGED nonLdVars

\* lines 38-39: if _mask_generator is not None: return
LdCheck(t) ==
    /\ tpc[t] = "check"
    /\ LdGoto(t, IF AlreadyLoaded THEN "idle" ELSE "exists")
    /\ UNCHANGED <<model, mask_generator, builds, calls>>
    /\ UNCHANGED nonLdVars

\* lines 41-42: the checkpoint file is there, or FileNotFoundError
LdExists(t) ==
    /\ tpc[t] = "exists"
    /\ \/ LdGoto(t, "build")
       \/ LdRaise(t)
    /\ UNCHANGED <<model, mask_generator, builds, calls>>
    /\ UNCHANGED nonLdVars

\* lines 49-54: _model = build_sam2(...), or build_sam2 raises
LdBuild(t) ==
    /\ tpc[t] = "build"
    /\ builds' = builds + 1
    /\ \/ /\ model' = builds + 1
          /\ LdGoto(t, "generator")
       \/ /\ LdRaise(t)
          /\ UNCHANGED model
    /\ UNCHANGED <<mask_generator, calls>>
    /\ UNCHANGED nonLdVars

\* line 55: _mask_generator = SAM2AutomaticMaskGenerator(_model), or it raises
LdGenerator(t) ==
    /\ tpc[t] = "generator"
    /\ \/ /\ mask_generator' = model
          /\ LdGoto(t, "idle")
       \/ /\ LdRaise(t)
          /\ UNCHANGED mask_generator
    /\ UNCHANGED <<model, builds, calls>>
    /\ UNCHANGED nonLdVars

LoadNext ==
    \E t \in Threads :
        \/ LdCall(t)
        \/ LdCheck(t)
        \/ LdExists(t)
        \/ LdBuild(t)
        \/ LdGenerator(t)

SpecLoad == LoadInit /\ [][LoadNext]_vars

(***************************************************************************)
(* SpecMus: clients sending requests to the exhibit endpoints of           *)
(* MiniatureMuseum. A request is served statement by statement; each       *)
(* database query is one step, so the requests of different clients        *)
(* interleave between queries.                                             *)
(***************************************************************************)
OwnedGalleryByStyle(gals, actor, gallery_id) ==
    LET found == {g \in gals : g.id = gallery_id /\ ~g.deleted}
    IN IF found = {} THEN "PermissionDenied"
       ELSE IF (CHOOSE g \in found : TRUE).user_style # actor.kind
       THEN "NotAuthenticated"
       ELSE "ok"

\* views.py lines 40-61 on the rows `gals` of table galleries; "ok" or the
\* exception raised
OwnedGallery(gals, actor, gallery_id) ==
    LET found == {g \in gals : g.id = gallery_id /\ ~g.deleted}
    IN IF found = {} THEN "PermissionDenied"
       ELSE LET gallery == CHOOSE g \in found : TRUE
            IN CASE gallery.user_style = "user" ->
                       IF actor.kind # "user" THEN "NotAuthenticated"
                       ELSE IF gallery.owner # actor.id THEN "PermissionDenied"
                       ELSE "ok"
                 [] gallery.user_style = "guest" ->
                       IF actor.kind # "guest" THEN "NotAuthenticated"
                       ELSE IF gallery.guest_id # actor.id THEN "PermissionDenied"
                       ELSE "ok"
                 [] OTHER -> "PermissionDenied"

\* the same for the galleries of SpecMus
get_owned_gallery_or_404(actor, gallery_id) ==
    OwnedGallery(Galleries, actor, gallery_id)

\* status codes of the framework's exception handler; NotAuthenticated is
\* answered 401 when the first authentication class of the project settings
\* has a WWW-Authenticate header, 403 when it has none
StatusesOf(exception) ==
    CASE exception = "PermissionDenied" -> {403}
      [] exception = "NotAuthenticated" -> {401, 403}
      [] exception = "ValidationError" -> {400}
      [] exception = "IntegrityError" -> {500}

\* serializers.py lines 42-60, for the gallery row named in the body
ValidGallery(actor, gallery) ==
    CASE actor.kind = "user" -> gallery.owner = actor.id
      [] actor.kind = "guest" -> gallery.guest_id = actor.id
      [] OTHER -> FALSE

\* the same for the galleries of SpecMus
validate_gallery(actor, gallery_id) == ValidGallery(actor, GalleryOf(gallery_id))

\* non-deleted exhibits of a slot: filter(gallery=, slot_index=, deleted_at__isnull=True)
LiveAt(rows, gallery_id, slot_index) ==
    {r \in rows : r.gallery = gallery_id /\ r.slot = slot_index /\ ~r.deleted}

\* the validator a ModelSerializer derives from Meta.unique_together
\* (models.py line 146) when gallery and slot_index are both writable fields
\* (serializers.py lines 19-34): some row other than the instance, deleted
\* or not, has the gallery and slot_index of the body
UniqueTogetherFails(rows, instance, gallery_id, slot_index) ==
    \E r \in rows :
        r.gallery = gallery_id /\ r.slot = slot_index /\ r.id # instance.id

CollidesNever(rows, row) == FALSE

\* the unique index of unique_together = ('gallery', 'slot_index'): a row
\* other than `row` has its gallery and slot_index
Collides(rows, row) ==
    \E r \in rows : r.id # row.id /\ r.gallery = row.gallery /\ r.slot = row.slot

\* Model.save() of an instance: UPDATE by primary key, INSERT when no row
\* was updated; IntegrityError (ok = FALSE) when the unique index refuses
\* the row
SaveRow(rows, row) ==
    IF Collides(rows, row) THEN [ok |-> FALSE, rows |-> rows]
    ELSE [ok |-> TRUE, rows |-> {r \in rows : r.id # row.id} \cup {row}]

Quiet == \A c \in Clients : req[c] = IdleReq

\* the first worker that serves no request
FreeWorker ==
    LET free == {i \in 1..Len(Workers) : req[Workers[i]] = IdleReq}
    IN Workers[CHOOSE i \in free : \A j \in free : i <= j]

\* a request arrives and is given to worker c
Arrives(c) ==
    /\ req[c] = IdleReq
    /\ c = FreeWorker
    /\ started < MaxReq
    /\ serial => Quiet
    /\ pre' = IF serial THEN db ELSE pre
    /\ UNCHANGED serial

\* the response is sent
Respond(c, st, row) ==
    /\ last' = [op |-> req[c].op, status |-> st, gallery |-> req[c].gallery,
                slot |-> req[c].slot, bgallery |-> req[c].bgallery, row |-> row]
    /\ req' = [req EXCEPT ![c] = IdleReq]

\* a request is answered by the statement it begins with
Answer(c, op, gallery_id, slot_index, st) ==
    /\ last' = [op |-> op, status |-> st, gallery |-> gallery_id,
                slot |-> slot_index, bgallery |-> NoGallery, row |-> NoRow]
    /\ UNCHANGED <<req, started>>

\* a request is refused before any query on exhibits
Refuse(c, op, st) == Answer(c, op, NoGallery, 0, st)

\* the request goes on to its queries
Admit(c, r) ==
    /\ req' = [req EXCEPT ![c] = r]
    /\ started' = started + 1
    /\ last' = NoResponse

Step(c, next) == req' = [req EXCEPT ![c].pc = next]

\* POST /galleries/{gallery_id}/exhibits/ : lines 80-83, up to the field
\* validators of the serializer
PostBegin(c) ==
    /\ Arrives(c)
    /\ \E actor \in Actors, g \in GalleryIds \cup {NoGallery} :
          LET a == get_owned_gallery_or_404(actor, g)
          IN IF a # "ok"
             THEN \E st \in StatusesOf(a) : Refuse(c, "POST", st)
             ELSE \E bg \in GalleryIds, s \in Slots :
                     IF ~validate_gallery(actor, bg)
                     THEN Refuse(c, "POST", 400)
                     ELSE Admit(c, [op |-> "POST", pc |-> "unique", gallery |-> g,
                                    slot |-> s, bgallery |-> bg, bslot |-> s,
                                    title |-> c, inst |-> NoRow])
    /\ UNCHANGED <<db, nextId>>
    /\ UNCHANGED nonMusVars

\* line 83: is_valid runs the unique-together validator
PostUnique(c) ==
    /\ req[c].op = "POST" /\ req[c].pc = "unique"
    /\ IF UniqueTogetherFails(db, NoRow, req[c].bgallery, req[c].bslot)
       THEN Respond(c, 400, NoRow)
       ELSE Step(c, "check") /\ UNCHANGED last
    /\ UNCHANGED <<db, nextId, started, serial, pre>>
    /\ UNCHANGED nonMusVars

\* lines 90-91: the slot is occupied
PostCheck(c) ==
    /\ req[c].op = "POST" /\ req[c].pc = "check"
    /\ IF LiveAt(db, req[c].gallery, req[c].slot) # {}
       THEN Respond(c, 409, NoRow)
       ELSE Step(c, "save") /\ UNCHANGED last
    /\ UNCHANGED <<db, nextId, started, serial, pre>>
    /\ UNCHANGED nonMusVars

\* lines 93-100: serializer.save(gallery=gallery, ...) inserts the row
PostSave(c) ==
    /\ req[c].op = "POST" /\ req[c].pc = "save"
    /\ LET row == [id |-> nextId + 1, gallery |-> req[c].gallery,
                   slot |-> req[c].slot, deleted |-> FALSE, title |-> req[c].title]
           saved == SaveRow(db, row)
       IN IF ~saved.ok
          THEN Respond(c, 500, NoRow) /\ UNCHANGED db
          ELSE Respond(c, 201, row) /\ db' = saved.rows
    /\ nextId' = nextId + 1
    /\ UNCHANGED <<started, serial, pre>>
    /\ UNCHANGED nonMusVars

\* PUT /galleries/{gallery_id}/exhibits/{slot_index}/ : line 118 and the
\* field validators of lines 124/127
PutBegin(c) ==
    /\ Arrives(c)
    /\ \E actor \in Actors, g \in GalleryIds \cup {NoGallery} :
          LET a == get_owned_gallery_or_404(actor, g)
          IN IF a # "ok"
             THEN \E st \in StatusesOf(a) : Refuse(c, "PUT", st)
             ELSE \E bg \in GalleryIds, s \in Slots, bs \in Slots :
                     IF ~validate_gallery(actor, bg)
                     THEN Refuse(c, "PUT", 400)
                     ELSE Admit(c, [op |-> "PUT", pc |-> "lookup", gallery |-> g,
                                    slot |-> s, bgallery |-> bg, bslot |-> bs,
                                    title |-> c, inst |-> NoRow])
    /\ UNCHANGED <<db, nextId>>
    /\ UNCHANGED nonMusVars

\* line 121: the non-deleted exhibit of the slot, or Exhibit.DoesNotExist
PutLookup(c) ==
    /\ req[c].op = "PUT" /\ req[c].pc = "lookup"
    /\ LET found == LiveAt(db, req[c].gallery, req[c].slot)
       IN \E r \in (IF found = {} THEN {NoRow} ELSE found) :
             req' = [req EXCEPT ![c].pc = "unique", ![c].inst = r]
    /\ UNCHANGED <<db, nextId, started, last, serial, pre>>
    /\ UNCHANGED nonMusVars

\* lines 124/127: is_valid runs the unique-together validator, which leaves
\* the instance being replaced out of its query
PutUnique(c) ==
    /\ req[c].op = "PUT" /\ req[c].pc = "unique"
    /\ IF UniqueTogetherFails(db, req[c].inst, req[c].bgallery, req[c].bslot)
       THEN Respond(c, 400, NoRow)
       ELSE Step(c, "save") /\ UNCHANGED last
    /\ UNCHANGED <<db, nextId, started, serial, pre>>
    /\ UNCHANGED nonMusVars

\* lines 130-141: serializer.save(gallery=gallery, slot_index=slot_index, ...)
PutSave(c) ==
    /\ req[c].op = "PUT" /\ req[c].pc = "save"
    /\ LET creating == req[c].inst = NoRow
           row == [id |-> IF creating THEN nextId + 1 ELSE req[c].inst.id,
                   gallery |-> req[c].gallery, slot |-> req[c].slot,
                   deleted |-> FALSE, title |-> req[c].title]
           saved == SaveRow(db, row)
       IN /\ IF ~saved.ok
             THEN Respond(c, 500, NoRow) /\ UNCHANGED db
             ELSE Respond(c, IF creating THEN 201 ELSE 200, row) /\ db' = saved.rows
          /\ nextId' = IF creating THEN nextId + 1 ELSE nextId
    /\ UNCHANGED <<started, serial, pre>>
    /\ UNCHANGED nonMusVars

\* DELETE /galleries/{gallery_id}/exhibits/{slot_index}/ : lines 153-158;
\* QuerySet.delete() removes the rows with one DELETE statement
DeleteSlot(c) ==
    /\ Arrives(c)
    /\ \E actor \in Actors, g \in GalleryIds \cup {NoGallery}, s \in Slots :
          LET a == get_owned_gallery_or_404(actor, g)
              gone == LiveAt(db, g, s)
          IN IF a # "ok"
             THEN /\ \E st \in StatusesOf(a) : Refuse(c, "DELETE", st)
                  /\ UNCHANGED db
             ELSE IF gone = {}
             THEN /\ Answer(c, "DELETE", g, s, 404)
                  /\ UNCHANGED db
             ELSE /\ last' = [op |-> "DELETE", status |-> 204, gallery |-> g,
                              slot |-> s, bgallery |-> NoGallery, row |-> NoRow]
                  /\ started' = started + 1
                  /\ db' = db \ gone
                  /\ UNCHANGED req
    /\ UNCHANGED nextId
    /\ UNCHANGED nonMusVars

\* DELETE /exhibits/{id}/ (ExhibitViewSet.destroy): permission check and
\* get_object() on the queryset of lines 197-199
DestroyBegin(c) ==
    /\ Arrives(c)
    /\ \E actor \in Actors, pk \in 1..(nextId + 1) :
          LET mine == {r \in db : r.id = pk /\ actor.kind = "user"
                                  /\ GalleryOf(r.gallery).owner = actor.id}
          IN IF actor.kind # "user"
             THEN \E st \in StatusesOf("NotAuthenticated") :
                     Refuse(c, "DESTROY", st)
             ELSE IF mine = {}
             THEN Refuse(c, "DESTROY", 404)
             ELSE \E r \in mine :
                     Admit(c, [op |-> "DESTROY", pc |-> "save",
                               gallery |-> r.gallery, slot |-> r.slot,
                               bgallery |-> NoGallery, bslot |-> 0, title |-> "",
                               inst |-> r])
    /\ UNCHANGED <<db, nextId>>
    /\ UNCHANGED nonMusVars

\* models.py lines 26-29: self.deleted_at = timezone.now(); self.save()
DestroySave(c) ==
    /\ req[c].op = "DESTROY" /\ req[c].pc = "save"
    /\ LET row == [req[c].inst EXCEPT !.deleted = TRUE]
           saved == SaveRow(db, row)
       IN IF ~saved.ok
          THEN Respond(c, 500, NoRow) /\ UNCHANGED db
          ELSE Respond(c, 204, row) /\ db' = saved.rows
    /\ UNCHANGED <<nextId, started, serial, pre>>
    /\ UNCHANGED nonMusVars

MusInit ==
    /\ LamIdle
    /\ SelIdle
    /\ CompIdle
    /\ LdIdle
    /\ WebIdle
    /\ db \in SeededDbs
    /\ nextId = Cardinality(db)
    /\ started = 0
    /\ req = [c \in Clients |-> IdleReq]
    /\ last = NoResponse
    /\ serial \in BOOLEAN
    /\ pre = {}

MusNext ==
    \E c \in Clients :
        \/ PostBegin(c)
        \/ PostUnique(c)
        \/ PostCheck(c)
        \/ PostSave(c)
        \/ PutBegin(c)
        \/ PutLookup(c)
        \/ PutUnique(c)
        \/ PutSave(c)
        \/ DeleteSlot(c)
        \/ DestroyBegin(c)
        \/ DestroySave(c)

SpecMus == MusInit /\ [][MusNext]_vars

(***************************************************************************)
(* SpecGal: the endpoints of MiniatureMuseum/urls.py served one request at *)
(* a time, on tables that carry the ownership columns. Each handler is an  *)
(* operator from the tables and the request to its possible outcomes.      *)
(***************************************************************************)
\* the row of table galleries with primary key (or slug) gallery_id
GalleryRow(gals, gallery_id) == CHOOSE g \in gals : g.id = gallery_id

\* Model.save() on table exhibits: the check constraints, then the unique
\* index
SaveExhibit(rows, row) ==
    IF ~ExhibitChecks(row) THEN [ok |-> FALSE, rows |-> rows]
    ELSE SaveRow(rows, row)

\* Model.save() on table galleries: the check constraints, then UPDATE by
\* primary key or INSERT
SaveGallery(gals, g) ==
    IF ~GalleryChecks(g) THEN [ok |-> FALSE, rows |-> gals]
    ELSE [ok |-> TRUE, rows |-> {r \in gals : r.id # g.id} \cup {g}]

\* ExhibitSerializer(instance, data=...).is_valid(): the gallery of the body
\* exists (deleted or not), validate_gallery, validate_slot_index, and the
\* unique-together validator
IsValid(gals, rows, instance, request, bgallery, bslot) ==
    /\ \E g \in gals : g.id = bgallery
    /\ ValidGallery(ActorOf(request), GalleryRow(gals, bgallery))
    /\ ~(bslot < 0 \/ bslot > SlotLimit)
    /\ ~UniqueTogetherFails(rows, instance, bgallery, bslot)

\* the outcomes of a request: its status, table exhibits after it, and the
\* primary key of the exhibit it saved
Outcomes(sts, rows, id) ==
    {[status |-> st, exhibits |-> rows, id |-> id] : st \in sts}

\* views.py lines 93-97 and 130-134: the ownership columns passed to save()
OwnerKwargs(gallery, actor) ==
    IF gallery.user_style = "user"
    THEN [user_style |-> "user", owner |-> actor.id, guest_id |-> ""]
    ELSE [user_style |-> "guest", owner |-> "", guest_id |-> actor.id]

\* views.py lines 79-100
post(gals, rows, request, gallery_id, bgallery, bslot, new_id) ==
    LET actor == ActorOf(request)
        a == OwnedGallery(gals, actor, gallery_id)
        kw == OwnerKwargs(GalleryRow(gals, gallery_id), actor)
        row == [id |-> new_id, gallery |-> gallery_id,
                user_style |-> kw.user_style, owner |-> kw.owner,
                guest_id |-> kw.guest_id, slot |-> bslot, deleted |-> FALSE]
        saved == SaveExhibit(rows, row)
    IN IF a # "ok" THEN Outcomes(StatusesOf(a), rows, 0)
       ELSE IF ~IsValid(gals, rows, NoExhibit, request, bgallery, bslot)
       THEN Outcomes({400}, rows, 0)
       ELSE IF LiveAt(rows, gallery_id, bslot) # {}
       THEN Outcomes({409}, rows, 0)
       ELSE IF ~saved.ok THEN Outcomes(StatusesOf("IntegrityError"), rows, 0)
       ELSE Outcomes({201}, saved.rows, new_id)

\* views.py lines 117-141
put(gals, rows, request, gallery_id, slot_index, bgallery, bslot, new_id) ==
    LET actor == ActorOf(request)
        a == OwnedGallery(gals, actor, gallery_id)
        found == LiveAt(rows, gallery_id, slot_index)
        exhibit == IF found = {} THEN NoExhibit ELSE CHOOSE r \in found : TRUE
        kw == OwnerKwargs(GalleryRow(gals, gallery_id), actor)
        row == [id |-> IF exhibit = NoExhibit THEN new_id ELSE exhibit.id,
                gallery |-> gallery_id, user_style |-> kw.user_style,
                owner |-> kw.owner, guest_id |-> kw.guest_id,
                slot |-> slot_index, deleted |-> FALSE]
        saved == SaveExhibit(rows, row)
    IN IF a # "ok" THEN Outcomes(StatusesOf(a), rows, 0)
       ELSE IF ~IsValid(gals, rows, exhibit, request, bgallery, bslot)
       THEN Outcomes({400}, rows, 0)
       ELSE IF ~saved.ok THEN Outcomes(StatusesOf("IntegrityError"), rows, 0)
       ELSE Outcomes({IF exhibit = NoExhibit THEN 201 ELSE 200}, saved.rows,
                     row.id)

\* views.py lines 152-158; QuerySet.delete() removes the rows
delete(gals, rows, request, gallery_id, slot_index) ==
    LET a == OwnedGallery(gals, ActorOf(request), gallery_id)
        qs == LiveAt(rows, gallery_id, slot_index)
    IN IF a # "ok" THEN Outcomes(StatusesOf(a), rows, 0)
       ELSE IF qs = {} THEN Outcomes({404}, rows, 0)
       ELSE Outcomes({204}, rows \ qs, 0)

\* permission_classes = [IsAuthenticated] (views.py lines 183, 195)
IsAuthenticated(request) == request.user # ""

\* ExhibitViewSet.get_queryset, views.py lines 197-199
ExhibitQueryset(rows, request) == {r \in rows : r.owner = request.user}

\* GalleryViewSet.get_queryset, views.py lines 185-186
GalleryQueryset(gals, request) == {g \in gals : g.owner = request.user}

\* ExhibitViewSet.create with perform_create, views.py lines 201-202;
\* user_style and guest_id take the defaults of the model
exhibit_create(gals, rows, request, bgallery, bslot, new_id) ==
    LET row == [id |-> new_id, gallery |-> bgallery, user_style |-> "user",
                owner |-> request.user, guest_id |-> "", slot |-> bslot,
                deleted |-> FALSE]
        saved == SaveExhibit(rows, row)
    IN IF ~IsAuthenticated(request)
       THEN Outcomes(StatusesOf("NotAuthenticated"), rows, 0)
       ELSE IF ~IsValid(gals, rows, NoExhibit, request, bgallery, bslot)
       THEN Outcomes({400}, rows, 0)
       ELSE IF ~saved.ok THEN Outcomes(StatusesOf("IntegrityError"), rows, 0)
       ELSE Outcomes({201}, saved.rows, new_id)

\* ExhibitViewSet.destroy: get_object() on the queryset, then
\* BaseModel.delete (models.py lines 26-29)
exhibit_destroy(rows, request, pk) ==
    LET mine == {r \in ExhibitQueryset(rows, request) : r.id = pk}
        row == [(CHOOSE r \in mine : TRUE) EXCEPT !.deleted = TRUE]
        saved == SaveExhibit(rows, row)
    IN IF ~IsAuthenticated(request)
       THEN Outcomes(StatusesOf("NotAuthenticated"), rows, 0)
       ELSE IF mine = {} THEN Outcomes({404}, rows, 0)
       ELSE IF ~saved.ok THEN Outcomes(StatusesOf("IntegrityError"), rows, 0)
       ELSE Outcomes({204}, saved.rows, pk)

\* the exhibits of a list in ascending slot_index: order_by('slot_index')
BySlot(rows) ==
    CHOOSE q \in [1..Cardinality(rows) -> rows] :
        /\ \A r \in rows : \E i \in DOMAIN q : q[i] = r
        /\ \A i, j \in DOMAIN q : i < j => q[i].slot <= q[j].slot

\* uuid4 of a new exhibit: a primary key no row has had
NewId == served + 2

\* the request is answered
Serve(r) ==
    /\ served < MaxServed
    /\ served' = served + 1
    /\ reply' = r

\* the bodies worth telling apart: a handler that refuses the request at
\* its first statement never reads the body
Bodies(refused) ==
    IF refused THEN {<<NoGallery, 0>>} ELSE GalleryNames \X BodySlots

\* POST /galleries/{gallery_id}/exhibits/
NestedPost ==
    \E request \in Credentials, g \in GalleryNames :
      \E b \in Bodies(OwnedGallery(galleries, ActorOf(request), g) # "ok") :
        \E o \in post(galleries, exhibits, request, g, b[1], b[2],
                      NewId) :
            /\ Serve([NoReply EXCEPT !.op = "POST", !.cred = request,
                          !.status = o.status, !.gallery = g, !.slot = b[2],
                          !.bgallery = b[1], !.bslot = b[2], !.id = o.id])
            /\ exhibits' = o.exhibits
            /\ UNCHANGED galleries
            /\ UNCHANGED nonGalVars

\* PUT /galleries/{gallery_id}/exhibits/{slot_index}/
NestedPut ==
    \E request \in Credentials, g \in GalleryNames, s \in UrlSlots :
      \E b \in Bodies(OwnedGallery(galleries, ActorOf(request), g) # "ok") :
        \E o \in put(galleries, exhibits, request, g, s, b[1], b[2],
                     NewId) :
            /\ Serve([NoReply EXCEPT !.op = "PUT", !.cred = request,
                          !.status = o.status, !.gallery = g, !.slot = s,
                          !.bgallery = b[1], !.bslot = b[2], !.id = o.id])
            /\ exhibits' = o.exhibits
            /\ UNCHANGED galleries
            /\ UNCHANGED nonGalVars

\* DELETE /galleries/{gallery_id}/exhibits/{slot_index}/
NestedDelete ==
    \E request \in Credentials, g \in GalleryNames, s \in UrlSlots :
        \E o \in delete(galleries, exhibits, request, g, s) :
            /\ Serve([NoReply EXCEPT !.op = "DELETE", !.cred = request,
                          !.status = o.status, !.gallery = g, !.slot = s])
            /\ exhibits' = o.exhibits
            /\ UNCHANGED galleries
            /\ UNCHANGED nonGalVars

\* POST /exhibits/
ExhibitCreate ==
    \E request \in Credentials :
      \E b \in Bodies(~IsAuthenticated(request)) :
        \E o \in exhibit_create(galleries, exhibits, request, b[1], b[2],
                                NewId) :
            /\ Serve([NoReply EXCEPT !.op = "CREATE", !.cred = request,
                          !.status = o.status, !.gallery = b[1],
                          !.slot = b[2], !.bgallery = b[1], !.bslot = b[2],
                          !.id = o.id])
            /\ exhibits' = o.exhibits
            /\ UNCHANGED galleries
            /\ UNCHANGED nonGalVars

\* DELETE /exhibits/{pk}/
ExhibitDestroy ==
    \E request \in Credentials, pk \in 1..(MaxServed + 1) :
        \E o \in exhibit_destroy(exhibits, request, pk) :
            /\ Serve([NoReply EXCEPT !.op = "DESTROY", !.cred = request,
                          !.status = o.status, !.id = pk])
            /\ exhibits' = o.exhibits
            /\ UNCHANGED galleries
            /\ UNCHANGED nonGalVars

\* GET /exhibits/ : the ids of the exhibits listed
ExhibitList ==
    \E request \in Credentials :
        /\ IF ~IsAuthenticated(request)
           THEN \E st \in StatusesOf("NotAuthenticated") :
                   Serve([NoReply EXCEPT !.op = "LIST", !.cred = request,
                             !.status = st])
           ELSE Serve([NoReply EXCEPT !.op = "LIST", !.cred = request,
                          !.status = 200,
                          !.ids = {r.id : r \in
                                     ExhibitQueryset(exhibits, request)}])
        /\ UNCHANGED <<galleries, exhibits>>
        /\ UNCHANGED nonGalVars

\* POST /galleries/ : GalleryViewSet.create with perform_create (lines
\* 188-189); user_style and is_public are fields of the body, the slug of
\* the body is NewGallery
GalleryCreate ==
    \E request \in Credentials, style \in {"user", "guest"}, p \in BOOLEAN :
        LET g == [id |-> NewGallery, user_style |-> style,
                  owner |-> request.user, guest_id |-> "", is_public |-> p,
                  deleted |-> FALSE]
            saved == SaveGallery(galleries, g)
            st == IF ~IsAuthenticated(request)
                  THEN StatusesOf("NotAuthenticated")
                  ELSE IF \E r \in galleries : r.id = NewGallery THEN {400}
                  ELSE IF ~saved.ok THEN StatusesOf("IntegrityError")
                  ELSE {201}
        IN /\ \E x \in st :
                 /\ Serve([NoReply EXCEPT !.op = "GCREATE", !.cred = request,
                               !.status = x, !.gallery = NewGallery])
                 /\ galleries' = IF x = 201 THEN saved.rows ELSE galleries
           /\ UNCHANGED exhibits
           /\ UNCHANGED nonGalVars

\* DELETE /galleries/{pk}/ : GalleryViewSet.destroy, get_object() on the
\* queryset, then BaseModel.delete
GalleryDestroy ==
    \E request \in Credentials, pk \in GalleryNames :
        LET mine == {g \in GalleryQueryset(galleries, request) : g.id = pk}
            row == [(CHOOSE g \in mine : TRUE) EXCEPT !.deleted = TRUE]
            saved == SaveGallery(galleries, row)
            st == IF ~IsAuthenticated(request)
                  THEN StatusesOf("NotAuthenticated")
                  ELSE IF mine = {} THEN {404}
                  ELSE IF ~saved.ok THEN StatusesOf("IntegrityError")
                  ELSE {204}
        IN /\ \E x \in st :
                 /\ Serve([NoReply EXCEPT !.op = "GDESTROY", !.cred = request,
                               !.status = x, !.gallery = pk])
                 /\ galleries' = IF x = 204 THEN saved.rows ELSE galleries
           /\ UNCHANGED exhibits
           /\ UNCHANGED nonGalVars

\* GET /galleries/ : the ids of the galleries listed
GalleryList ==
    \E request \in Credentials :
        /\ IF ~IsAuthenticated(request)
           THEN \E st \in StatusesOf("NotAuthenticated") :
                   Serve([NoReply EXCEPT !.op = "GLIST", !.cred = request,
                             !.status = st])
           ELSE Serve([NoReply EXCEPT !.op = "GLIST", !.cred = request,
                          !.status = 200,
                          !.ids = {g.id : g \in
                                     GalleryQueryset(galleries, request)}])
        /\ UNCHANGED <<galleries, exhibits>>
        /\ UNCHANGED nonGalVars

\* GET /galleries/g/{slug}/ : GalleryPublicView (views.py lines 206-219)
\* with GalleryPublicSerializer; `listed` is the ids of key "exhibits"
PublicView ==
    \E slug \in GalleryNames :
        LET qs == {g \in galleries : g.is_public /\ ~g.deleted /\ g.id = slug}
            shown == BySlot({r \in exhibits : r.gallery = slug})
        IN /\ IF qs = {}
              THEN Serve([NoReply EXCEPT !.op = "VIEW", !.status = 404,
                             !.gallery = slug])
              ELSE Serve([NoReply EXCEPT !.op = "VIEW", !.status = 200,
                             !.gallery = slug,
                             !.listed = [i \in DOMAIN shown |-> shown[i].id],
                             !.fields = GalleryPublicFields
                                            \cup ExhibitPublicFields])
           /\ UNCHANGED <<galleries, exhibits>>
           /\ UNCHANGED nonGalVars

GalInit ==
    /\ LamIdle
    /\ SelIdle
    /\ CompIdle
    /\ LdIdle
    /\ MusIdle
    /\ UpIdle
    /\ PgIdle
    /\ galleries = SeededGalleries
    /\ exhibits \in SeededExhibits
    /\ served = 0
    /\ reply = NoReply

GalNext ==
    \/ NestedPost
    \/ NestedPut
    \/ NestedDelete
    \/ ExhibitCreate
    \/ ExhibitDestroy
    \/ ExhibitList
    \/ GalleryCreate
    \/ GalleryDestroy
    \/ GalleryList
    \/ PublicView

SpecGal == GalInit /\ [][GalNext]_vars

(***************************************************************************)
(* SpecUp: core/views.py UploadView. issue_upload is one step;             *)
(* confirm_upload is served statement by statement (the query, the         *)
(* head_object call, the save), the clients uploading and the bucket       *)
(* losing objects in between.                                              *)
(***************************************************************************)
\* line 60: users/{request.user.id}/{purpose}/{uuid4}{ext}
UploadKey(user, purpose, n) == [user |-> user, purpose |-> purpose, uuid |-> n]

\* lines 53-90; both uuid4 values (the key's and the row's id) are new
IssueUpload ==
    \E user \in Users \cup {""}, purpose \in Purposes :
        /\ IF user = ""
           THEN /\ \E st \in StatusesOf("NotAuthenticated") :
                      upLast' = [op |-> "issue", user |-> user, id |-> 0,
                                 status |-> st]
                /\ UNCHANGED <<sessions, issued>>
           ELSE /\ issued < MaxIssued
                /\ issued' = issued + 1
                /\ sessions' = sessions \cup
                      {[id |-> issued + 1, user |-> user, purpose |-> purpose,
                        s3_key |-> UploadKey(user, purpose, issued + 1),
                        status |-> "issued"]}
                /\ upLast' = [op |-> "issue", user |-> user,
                              id |-> issued + 1, status |-> 200]
        /\ UNCHANGED <<objects, upc>>
        /\ UNCHANGED nonUpVars

\* a client holding the presigned URL of a session PUTs the object
ClientPut ==
    \E s \in sessions :
        /\ s.s3_key \notin objects
        /\ objects' = objects \cup {s.s3_key}
        /\ UNCHANGED <<sessions, issued, upc, upLast>>
        /\ UNCHANGED nonUpVars

\* an object leaves the bucket (removed by hand or by a lifecycle rule)
ObjectRemoved ==
    \E k \in objects :
        /\ objects' = objects \ {k}
        /\ UNCHANGED <<sessions, issued, upc, upLast>>
        /\ UNCHANGED nonUpVars

UpRespond(c, st) ==
    /\ upLast' = [op |-> "confirm", user |-> upc[c].user, id |-> upc[c].id,
                  status |-> st]
    /\ upc' = [upc EXCEPT ![c] = IdleConfirm]

GetSessionOfAnyUser(user, session_id) ==
    {s \in sessions : s.id = session_id}

\* line 98: UploadSession.objects.get(id=session_id, user=request.user)
GetSession(user, session_id) ==
    {s \in sessions : s.id = session_id /\ s.user = user}

\* lines 92-100: a confirm request arrives; permission, then the query
ConfirmGet(c) ==
    /\ upc[c] = IdleConfirm
    /\ \E user \in Users \cup {""} :
        \E session_id \in (IF user = "" THEN {0} ELSE 1..MaxIssued) :
          LET found == GetSession(user, session_id)
          IN IF user = ""
             THEN /\ \E st \in StatusesOf("NotAuthenticated") :
                        upLast' = [op |-> "confirm", user |-> user,
                                   id |-> session_id, status |-> st]
                  /\ UNCHANGED upc
             ELSE IF found = {}
             THEN /\ upLast' = [op |-> "confirm", user |-> user,
                                id |-> session_id, status |-> 404]
                  /\ UNCHANGED upc
             ELSE /\ \E s \in found :
                        upc' = [upc EXCEPT ![c] =
                                  [pc |-> "head", user |-> user,
                                   id |-> session_id, session |-> s,
                                   headed |-> FALSE]]
                  /\ UNCHANGED upLast
    /\ UNCHANGED <<sessions, objects, issued>>
    /\ UNCHANGED nonUpVars

\* lines 108-111: head_object; any exception (no such key, no credentials,
\* no network) is answered 400
ConfirmHead(c) ==
    /\ upc[c].pc = "head"
    /\ \/ /\ upc[c].session.s3_key \in objects
          /\ upc' = [upc EXCEPT ![c].pc = "save", ![c].headed = TRUE]
          /\ UNCHANGED upLast
       \/ UpRespond(c, 400)
    /\ UNCHANGED <<sessions, objects, issued>>
    /\ UNCHANGED nonUpVars

\* lines 113-115: session.status = 'confirmed'; session.save()
ConfirmSave(c) ==
    /\ upc[c].pc = "save"
    /\ sessions' = {s \in sessions : s.id # upc[c].session.id}
                       \cup {[upc[c].session EXCEPT !.status = "confirmed"]}
    /\ UpRespond(c, 200)
    /\ UNCHANGED <<objects, issued>>
    /\ UNCHANGED nonUpVars

UpInit ==
    /\ LamIdle
    /\ SelIdle
    /\ CompIdle
    /\ LdIdle
    /\ MusIdle
    /\ GalIdle
    /\ PgIdle
    /\ UpIdle

UpNext ==
    \/ IssueUpload
    \/ ClientPut
    \/ ObjectRemoved
    \/ \E c \in Clients :
          \/ ConfirmGet(c)
          \/ ConfirmHead(c)
          \/ ConfirmSave(c)

SpecUp == UpInit /\ [][UpNext]_vars

(***************************************************************************)
(* SpecPg: core/views.py PageViewSet.perform_create served by two workers, *)
(* one database statement at a time; the project runs its queries in       *)
(* autocommit, and nothing in the view locks the notebook.                 *)
(***************************************************************************)
\* NotebookPage rows of a notebook, in creation order
PagesOf(notebook) == SelectSeq(links, LAMBDA l : l.notebook = notebook)

\* lines 165-172 and 182-183: the page is saved, notebook_id is read and the
\* notebook is looked up
PageSave(c) ==
    /\ ppc[c] = IdlePage
    /\ pages < MaxPages
    /\ pages' = pages + 1
    /\ \E notebook_id \in Notebooks \cup {"", NoNotebook} :
          IF notebook_id \in Notebooks
          THEN ppc' = [ppc EXCEPT ![c] =
                         [pc |-> "count", notebook |-> notebook_id,
                          page |-> pages + 1, last_position |-> 0]]
          ELSE UNCHANGED ppc
    /\ UNCHANGED links
    /\ UNCHANGED nonPgVars

\* line 175: last_position = NotebookPage.objects.filter(notebook=notebook).count()
PageCount(c) ==
    /\ ppc[c].pc = "count"
    /\ ppc' = [ppc EXCEPT ![c].pc = "create",
                          ![c].last_position = Len(PagesOf(ppc[c].notebook))]
    /\ UNCHANGED <<links, pages>>
    /\ UNCHANGED nonPgVars

\* lines 176-180: NotebookPage.objects.create(notebook, page, position)
PageLink(c) ==
    /\ ppc[c].pc = "create"
    /\ links' = Append(links, [notebook |-> ppc[c].notebook,
                               page |-> ppc[c].page,
                               position |-> ppc[c].last_position])
    /\ ppc' = [ppc EXCEPT ![c] = IdlePage]
    /\ UNCHANGED pages
    /\ UNCHANGED nonPgVars

PgInit ==
    /\ LamIdle
    /\ SelIdle
    /\ CompIdle
    /\ LdIdle
    /\ MusIdle
    /\ GalIdle
    /\ UpIdle
    /\ PgIdle

PgNext == \E c \in Clients : PageSave(c) \/ PageCount(c) \/ PageLink(c)

SpecPg == PgInit /\ [][PgNext]_vars

(***************************************************************************)
(* Properties of the selectors (checked under SpecSel).                    *)
(***************************************************************************)
\* rank of SAM2 mask j: its 'area' entry, else the pixel count of its
\* segmentation, else 0
RankOf(j) ==
    LET m == sam2Masks[j]
    IN IF m.area # NoArea THEN m.area
       ELSE IF m.seg # NoSeg
            THEN Cardinality({p \in 1..Len(m.seg) : m.seg[p]})
            ELSE 0

\* first index of maximal rank
FirstOfMaxRank ==
    CHOOSE i \in 1..Len(sam2Masks) :
        /\ \A j \in 1..Len(sam2Masks) : RankOf(j) <= RankOf(i)
        /\ \A j \in 1..(i - 1) : RankOf(j) < RankOf(i)

PixelArea(j) == Cardinality({p \in 1..Len(yoloInst[j].mask) : yoloInst[j].mask[p] = 1})

Salience(j) == PixelArea(j) * yoloInst[j].conf

\* area * max(confidence, eps); confidence and eps in units of 1/(2*MaxConf)
FlooredSalience(j, eps) ==
    PixelArea(j) * (IF 2 * yoloInst[j].conf > eps THEN 2 * yoloInst[j].conf ELSE eps)

C9_ReturnsSegmentationOfLargest ==
    (largestRes # Pending /\ sam2Masks # <<>>) =>
        /\ largestRes.kind = "ok"
        /\ \E i \in 1..Len(sam2Masks) :
              /\ \A j \in 1..Len(sam2Masks) : RankOf(j) <= RankOf(i)
              /\ sam2Masks[i].seg # NoSeg
              /\ largestRes.seg
                    = [p \in 1..Len(sam2Masks[i].seg) |->
                          IF sam2Masks[i].seg[p] THEN 1 ELSE 0]

\* C9 as amended: for every non-empty mask list _pick_largest_mask takes the
\* first mask of maximal rank (rank: the 'area' entry, else the pixel count of
\* the segmentation, else 0); it returns that mask's segmentation as 0/1
\* values when the mask has one and raises ValueError when it has none.
C9_FirstLargestOrValueError ==
    (largestRes # Pending /\ sam2Masks # <<>>) =>
        LET m == sam2Masks[FirstOfMaxRank]
        IN IF m.seg = NoSeg
           THEN largestRes.kind = "ValueError:MissingSegmentation"
           ELSE /\ largestRes.kind = "ok"
                /\ largestRes.idx = FirstOfMaxRank
                /\ largestRes.seg
                      = [p \in 1..Len(m.seg) |-> IF m.seg[p] THEN 1 ELSE 0]

\* the winner is not the first mask, beats a mask ranked by its 'area' entry
\* and is itself ranked by the pixel count of its segmentation
C9_Witness ==
    /\ largestRes.kind = "ok"
    /\ largestRes.idx > 1
    /\ sam2Masks[largestRes.idx].area = NoArea
    /\ sam2Masks[1].area # NoArea
    /\ RankOf(1) < RankOf(largestRes.idx)

Cutouts == {cutSam2, cutYolop, cutYolof}

\* C14: for every source image of size (w, h) and every selected mask of
\* any size (mh, mw), each compositor returns a cutout of size (w, h) and
\* does not fail because of a size mismatch.
C14_CutoutHasSourceSize ==
    \A c \in Cutouts :
        c # NotApplied => (c.kind = "ok" /\ c.w = srcImg.w /\ c.h = srcImg.h)

\* C15: every pixel of every cutout produced has the R, G and B of the
\* source pixel at the same position, and an alpha in 0..255 that is 0 or 255
\* when the mask is binary (bool-like values only: 0/1 or 0.0/1.0).
BinaryMask ==
    \A y \in 1..selMask.h : \A x \in 1..selMask.w :
        selMask.v[y][x] \in {0, IF selMask.dtype = "float32" THEN FloatOne ELSE 1}

C15_RgbCopiedAlphaFromMask ==
    \A c \in Cutouts :
        (c # NotApplied /\ c.kind = "ok") =>
            \A y \in 1..c.h : \A x \in 1..c.w :
                /\ c.rgb[y][x] = srcImg.px[y][x]
                /\ c.alpha[y][x] \in 0..255
                /\ BinaryMask => c.alpha[y][x] \in {0, 255}

\* C16: when a soft (float) mask of the image's size is binarised, a pixel is
\* opaque (alpha 255) exactly when its mask value is greater than 50% of the
\* maximum of its range - 8-bit value >= 128, float value > 0.5 - and
\* transparent (alpha 0) otherwise; both YOLO compositors agree.
C16_OpaqueIffAboveHalf ==
    (selMask.dtype = "float32" /\ selMask.w = srcImg.w /\ selMask.h = srcImg.h) =>
        \A c \in {cutYolop, cutYolof} :
            c # NotApplied =>
                /\ c.kind = "ok"
                /\ \A y \in 1..c.h : \A x \in 1..c.w :
                      c.alpha[y][x] =
                          (IF 2 * selMask.v[y][x] > FloatOne THEN 255 ELSE 0)

(***************************************************************************)
(* Properties of concurrent model loading (checked under SpecLoad).        *)
(***************************************************************************)
\* C18: in Lambda_CropSAM2, when several first invocations run concurrently
\* in one process, build_sam2 is executed at most once over the life of the
\* process, whatever the interleaving of the _load_model calls (no call
\* having failed).
C18_ModelBuiltAtMostOnce == raised = 0 => builds <= 1

(***************************************************************************)
(* Properties of the exhibit endpoints (checked under SpecMus).            *)
(***************************************************************************)
\* C19: after any sequence and any interleaving of nested exhibit requests
\* (and of ExhibitViewSet deletions) from any clients, each gallery holds at
\* most one non-deleted exhibit per slot_index.
C19_OneLiveExhibitPerSlot ==
    \A g \in GalleryIds : \A s \in Slots : Cardinality(LiveAt(db, g, s)) <= 1

\* a POST found its slot free in both of its queries, another request filled
\* the slot before the POST saved, and the slot holds that one exhibit
C19_Witness ==
    /\ ~serial
    /\ last.op = "POST"
    /\ last.status = 500
    /\ last.bgallery = last.gallery
    /\ Cardinality(LiveAt(db, last.gallery, last.slot)) = 1

\* C20: a valid POST by the gallery's owner (served alone, its body naming
\* the gallery of the URL) to a slot that holds a non-deleted exhibit returns
\* 409 and leaves every exhibit unchanged; to a slot with no non-deleted
\* exhibit it returns 201 and adds one non-deleted exhibit in that slot,
\* also when an exhibit of the slot was deleted earlier by the nested DELETE
\* or by ExhibitViewSet.destroy.
C20_PostConflictOrCreate ==
    (serial /\ last.op = "POST" /\ last.gallery # NoGallery
        /\ last.bgallery = last.gallery) =>
        IF LiveAt(pre, last.gallery, last.slot) # {}
        THEN last.status = 409 /\ db = pre
        ELSE /\ last.status = 201
             /\ db = pre \cup {last.row}
             /\ last.row \in LiveAt(db, last.gallery, last.slot)
             /\ last.row \notin pre

(***************************************************************************)
(* Properties of the MiniatureMuseum endpoints served one request at a     *)
(* time (checked under SpecGal).                                           *)
(***************************************************************************)
\* the request of the step just taken comes from the owner of the gallery
\* its URL names: a user gallery and request.user is its owner, or a guest
\* gallery, no authenticated user and X-Guest-Id is its guest_id
ByOwner(gals, request, gallery_id) ==
    \E g \in gals :
        /\ g.id = gallery_id
        /\ ~g.deleted
        /\ \/ g.user_style = "user" /\ request.user # ""
              /\ request.user = g.owner
           \/ g.user_style = "guest" /\ request.user = ""
              /\ request.guest # "" /\ request.guest = g.guest_id

InRange(slot_index) == slot_index \in 0..SlotLimit

\* C21: a PUT by the owner to a URL slot in 0..11, whose body names the
\* gallery and the slot of the URL, returns 201 and adds one exhibit in the
\* URL slot when that slot holds no non-deleted exhibit, and returns 200 and
\* keeps the primary key of the exhibit it replaces otherwise; and after any
\* PUT every stored exhibit has slot_index in 0..11.
C21_PutCreatesOrReplaces ==
    [][(served' # served /\ reply'.op = "PUT") =>
        /\ \A r \in exhibits' : InRange(r.slot)
        /\ (/\ ByOwner(galleries, reply'.cred, reply'.gallery)
            /\ reply'.bgallery = reply'.gallery
            /\ reply'.bslot = reply'.slot
            /\ InRange(reply'.slot)) =>
               LET old == LiveAt(exhibits, reply'.gallery, reply'.slot)
                   new == LiveAt(exhibits', reply'.gallery, reply'.slot)
               IN IF old = {}
                  THEN /\ reply'.status = 201
                       /\ Cardinality(new) = 1
                       /\ exhibits' = exhibits \cup new
                       /\ new \cap exhibits = {}
                  ELSE /\ reply'.status = 200
                       /\ {r.id : r \in new} = {r.id : r \in old}
                       /\ exhibits' \ new = exhibits \ old]_vars

\* C22: a request to a nested exhibit endpoint of gallery G that does not
\* come from the owner of G (G soft-deleted or missing included) is answered
\* 401 or 403 and leaves table exhibits as it was; and whatever a request
\* adds, replaces or removes is an exhibit of G.
C22_OnlyOwnerChangesExhibits ==
    [][(served' # served /\ reply'.op \in {"POST", "PUT", "DELETE"}) =>
        /\ ~ByOwner(galleries, reply'.cred, reply'.gallery) =>
              (reply'.status \in {401, 403} /\ exhibits' = exhibits)
        /\ \A r \in (exhibits' \ exhibits) \cup (exhibits \ exhibits') :
              r.gallery = reply'.gallery]_vars

\* guest x has replaced the exhibit of a slot of its gallery g3
C22_Witness ==
    /\ reply.op = "PUT"
    /\ reply.status = 200
    /\ reply.cred = [user |-> "", guest |-> "x"]
    /\ reply.gallery = "g3"
    /\ \E r \in exhibits : r.id = reply.id /\ r.gallery = "g3"

\* a row of either table has the ownership columns its user_style calls for
StyleRule(r) ==
    /\ r.user_style = "user" => (r.owner # "" /\ r.guest_id = "")
    /\ r.user_style = "guest" => (r.guest_id # "" /\ r.owner = "")

\* C23: every gallery and every exhibit stored has an owner and no guest_id
\* when its user_style is 'user', a guest_id and no owner when it is
\* 'guest'; and every exhibit has the user_style, owner and guest_id of its
\* gallery.
C23_OwnershipColumnsAgree ==
    /\ \A g \in galleries : StyleRule(g)
    /\ \A e \in exhibits :
          /\ StyleRule(e)
          /\ \E g \in galleries :
                /\ g.id = e.gallery
                /\ e.user_style = g.user_style
                /\ e.owner = g.owner
                /\ e.guest_id = g.guest_id

\* POST /exhibits/ has created an exhibit in a gallery that POST /galleries/
\* created
C23_Witness ==
    /\ reply.op = "CREATE"
    /\ reply.status = 201
    /\ \E e \in exhibits : e.id = reply.id /\ e.gallery = NewGallery

\* C24: GET /galleries/g/{slug}/ answers 404 unless the gallery of that slug
\* is public and not soft-deleted; when it answers 200 the exhibits of the
\* response are the non-deleted exhibits of the gallery in ascending
\* slot_index, and no key of the response is owner or guest_id.
C24_PublicViewerShowsLiveExhibits ==
    reply.op = "VIEW" =>
        LET shown == BySlot({r \in exhibits :
                               r.gallery = reply.gallery /\ ~r.deleted})
        IN IF \E g \in galleries :
                 g.id = reply.gallery /\ g.is_public /\ ~g.deleted
           THEN /\ reply.status = 200
                /\ reply.listed = [i \in DOMAIN shown |-> shown[i].id]
                /\ reply.fields \cap {"owner", "guest_id"} = {}
           ELSE reply.status = 404

\* C25: a delete request answered 204 (nested DELETE, ExhibitViewSet.destroy,
\* GalleryViewSet.destroy) removes no row of either table and leaves the row
\* it names soft-deleted; and the owner's lists hold no soft-deleted row.
C25_DeletionIsLogical ==
    [][(served' # served) =>
        /\ reply'.status = 204 =>
              /\ {r.id : r \in exhibits} \subseteq {r.id : r \in exhibits'}
              /\ {g.id : g \in galleries} \subseteq {g.id : g \in galleries'}
              /\ reply'.op = "DELETE" =>
                    \A r \in LiveAt(exhibits, reply'.gallery, reply'.slot) :
                        \E d \in exhibits' : d.id = r.id /\ d.deleted
              /\ reply'.op = "DESTROY" =>
                    \E d \in exhibits' : d.id = reply'.id /\ d.deleted
              /\ reply'.op = "GDESTROY" =>
                    \E d \in galleries' : d.id = reply'.gallery /\ d.deleted
        /\ (reply'.op = "LIST" /\ reply'.status = 200) =>
              \A r \in exhibits' : r.deleted => r.id \notin reply'.ids
        /\ (reply'.op = "GLIST" /\ reply'.status = 200) =>
              \A g \in galleries' : g.deleted => g.id \notin reply'.ids]_vars

(***************************************************************************)
(* Properties of the upload sessions (checked under SpecUp).               *)
(***************************************************************************)
\* the worker whose confirm request is at its save
Saving(c, s) == upc[c].pc = "save" /\ upc[c].id = s.id

C27_PositionsAreZeroToNInOrder ==
    \A notebook \in Notebooks :
        \A i \in 1..Len(PagesOf(notebook)) :
            PagesOf(notebook)[i].position = i - 1

====
